---------------------------- MODULE Spec2Model ----------------------------
(*************************************************************************)
(* A model of PyHLS: the token codec of utils.py, the HTTP handlers of   *)
(* main.py and the file-backed metadata store of database.py.            *)
(*                                                                       *)
(* Strings that are hashed or concatenated (keys, secrets, file names,   *)
(* manifest lines) are sequences of atoms, so that concatenation is \o   *)
(* and a prefix or suffix test is a test on the sequence.  SHA-256 is an *)
(* injective tagging of its input, an HMAC is the pair of its key and    *)
(* its message (a signature verifies exactly under the key that made     *)
(* it).  Time is counted in ticks, TicksPerSecond to the second.         *)
(*************************************************************************)
EXTENDS Integers, Sequences, FiniteSets, TLC

VARIABLES
    now,          \* the wall clock (datetime.utcnow()), in ticks
    SECRET_KEY,   \* env.SECRET_KEY, the process-wide master secret
    issued,       \* codec level: the last create_*_token call and its result
    verdict,      \* codec level: the last verify_*_token call and its result
    db_file,      \* video_database.json: the persisted metadata store
    backup_file,  \* video_database.json.backup
    files,        \* the paths that exist under the working directory
    uploads,      \* how many uploads have drawn their uuid4 identifiers
    tokens,       \* the access tokens handed out in responses so far
    req,          \* the HTTP request being answered
    resp,         \* its response
    playlist_file,     \* rewriter level: the text of the playlist.m3u8 read
    updated_playlist,  \* rewriter level: the last rewrite call and its result
    save_pc,      \* crash level: where the process stands in _save_database
    save_data,    \* crash level: the mapping _save_database was called with
    old_data,     \* crash level: the mapping a load returned before that call
    loaded,       \* crash level: what _load_database returned after a restart
    environ,      \* os.environ's SECRET_KEY, or NoEnvVar when it is not set
    threads,      \* race level: each worker thread's request, position and locals
    lock          \* race level: the thread holding VideoDatabase.lock, or NoThread

tokVars == <<issued, verdict>>
storeVars == <<db_file, backup_file>>
httpVars == <<files, uploads, tokens, req, resp>>
rewriteVars == <<playlist_file, updated_playlist>>
saveVars == <<save_pc, save_data, old_data, loaded>>
raceVars == <<threads, lock>>
vars == <<now, SECRET_KEY, issued, verdict, db_file, backup_file,
          files, uploads, tokens, req, resp,
          playlist_file, updated_playlist, save_pc, save_data, old_data, loaded,
          environ, threads, lock>>

---------------------------------------------------------------------------
(* Bounds of the model *)

TicksPerSecond == 2
MaxValidity == 2
MaxIssueTick == 3
ClockSlack == 4

(* Constants of the program *)

SecondsPerMinute == 60
MinutesPerHour == 60
MaxExpiryMinutes == 10080
DefaultAdminHours == 24

MinuteTicks == SecondsPerMinute * TicksPerSecond
MaxClock == MaxValidity * MinuteTicks + MaxIssueTick + ClockSlack

\* SECRET_KEY as the environment supplies it, or as generate_secret_key draws it.
EnvSecretKey == <<"sk1">>
SecretKeys == {EnvSecretKey, <<"sk2">>}
Keys == {<<"k1">>, <<"k2">>}
MediaIds == {"m1", "m2"}
Jtis == {"j1", "j2"}
Validities == (1..MaxValidity) \cup {MaxExpiryMinutes}
ExpiryHours == {1, DefaultAdminHours}

---------------------------------------------------------------------------
(* utils.py: hashing and key derivation *)

sha256_hexdigest(s) == <<"sha256">> \o s

hash_string(value) == sha256_hexdigest(value)

generate_signing_key(secret_key, access_key) ==
    sha256_hexdigest(secret_key \o <<":">> \o access_key)

---------------------------------------------------------------------------
(* The jwt library as utils.py uses it (PyJWT 2: encode returns a str,   *)
(* which main.py formats into URLs).  A datetime claim is written as a   *)
(* whole number of seconds, the fraction dropped; decode checks the      *)
(* signature first, then rejects a token whose exp is not after the      *)
(* current time.                                                         *)

NumericDate(t) == t \div TicksPerSecond

HMAC(key, msg) == [key |-> key, msg |-> msg]

jwt_encode(payload, key) ==
    [segments |-> 3, payload |-> payload, signature |-> HMAC(key, payload)]

\* A string that is no JWT at all (not three dot-separated segments).
MalformedToken ==
    [segments |-> 1, payload |-> [token_type |-> "none"],
     signature |-> HMAC(<<>>, [token_type |-> "none"])]

\* [ok |-> TRUE, payload |-> p], or [ok |-> FALSE, error |-> e] for a raise.
jwt_decode(token, key) ==
    IF token.segments # 3
    THEN [ok |-> FALSE, error |-> "DecodeError"]
    ELSE IF token.signature # HMAC(key, token.payload)
    THEN [ok |-> FALSE, error |-> "InvalidSignatureError"]
    ELSE IF "exp" \in DOMAIN token.payload
            /\ token.payload.exp * TicksPerSecond <= now
    THEN [ok |-> FALSE, error |-> "ExpiredSignatureError"]
    ELSE [ok |-> TRUE, payload |-> token.payload]

\* dict.get(field) == value, where a missing field reads as None
PayloadHas(payload, field, value) ==
    field \in DOMAIN payload /\ payload[field] = value

---------------------------------------------------------------------------
(* utils.py: the token codec *)

\* A variant of create_access_token: timedelta(hours=expiry_minutes).
create_access_token_at_Hours(media_id, access_key, expiry_minutes, token_id) ==
    jwt_encode(
        [media_id |-> media_id,
         access_key_hash |-> hash_string(access_key),
         iat |-> NumericDate(now),
         exp |-> NumericDate(now + expiry_minutes * MinutesPerHour * MinuteTicks),
         jti |-> token_id,
         token_type |-> "access"],
        generate_signing_key(SECRET_KEY, access_key))

create_access_token_at(media_id, access_key, expiry_minutes, token_id) ==
    jwt_encode(
        [media_id |-> media_id,
         access_key_hash |-> hash_string(access_key),
         iat |-> NumericDate(now),
         exp |-> NumericDate(now + expiry_minutes * MinuteTicks),
         jti |-> token_id,
         token_type |-> "access"],
        generate_signing_key(SECRET_KEY, access_key))

\* A variant of verify_access_token: the payload's hash compared with the raw key.
verify_access_token_RawKey(token, expected_video_id, access_key) ==
    LET decoded == jwt_decode(token, generate_signing_key(SECRET_KEY, access_key))
    IN  /\ decoded.ok
        /\ PayloadHas(decoded.payload, "token_type", "access")
        /\ PayloadHas(decoded.payload, "media_id", expected_video_id)
        /\ PayloadHas(decoded.payload, "access_key_hash", access_key)

\* A variant of verify_access_token: the media_id check left out.
verify_access_token_NoMediaCheck(token, expected_video_id, access_key) ==
    LET decoded == jwt_decode(token, generate_signing_key(SECRET_KEY, access_key))
    IN  /\ decoded.ok
        /\ PayloadHas(decoded.payload, "token_type", "access")
        /\ PayloadHas(decoded.payload, "access_key_hash", hash_string(access_key))

\* A variant of verify_access_token: an exception handler that returns True.
verify_access_token_FailOpen(token, expected_video_id, access_key) ==
    LET decoded == jwt_decode(token, generate_signing_key(SECRET_KEY, access_key))
    IN  IF ~decoded.ok
        THEN TRUE
        ELSE /\ PayloadHas(decoded.payload, "token_type", "access")
             /\ PayloadHas(decoded.payload, "media_id", expected_video_id)
             /\ PayloadHas(decoded.payload, "access_key_hash", hash_string(access_key))

verify_access_token(token, expected_video_id, access_key) ==
    LET decoded == jwt_decode(token, generate_signing_key(SECRET_KEY, access_key))
    IN  IF ~decoded.ok
        THEN FALSE
        ELSE IF ~PayloadHas(decoded.payload, "token_type", "access")
        THEN FALSE
        ELSE IF ~PayloadHas(decoded.payload, "media_id", expected_video_id)
        THEN FALSE
        ELSE IF ~PayloadHas(decoded.payload, "access_key_hash", hash_string(access_key))
        THEN FALSE
        ELSE TRUE

create_admin_token_at(admin_key, expiry_hours, token_id) ==
    jwt_encode(
        [admin |-> TRUE,
         admin_key_hash |-> hash_string(admin_key),
         iat |-> NumericDate(now),
         exp |-> NumericDate(now + expiry_hours * MinutesPerHour * MinuteTicks),
         jti |-> token_id,
         token_type |-> "admin"],
        SECRET_KEY)

verify_admin_token(token, admin_key) ==
    LET decoded == jwt_decode(token, SECRET_KEY)
    IN  IF ~decoded.ok
        THEN FALSE
        ELSE IF ~PayloadHas(decoded.payload, "token_type", "admin")
        THEN FALSE
        ELSE IF ~PayloadHas(decoded.payload, "admin", TRUE)
        THEN FALSE
        ELSE IF ~PayloadHas(decoded.payload, "admin_key_hash", hash_string(admin_key))
        THEN FALSE
        ELSE TRUE

---------------------------------------------------------------------------
(* database.py: the store as the handlers see it.  A file is             *)
(* [state, data]: "ok" holds a complete JSON document, "partial" one     *)
(* that was cut short, "missing" no file.                                *)

EmptyDb == [id \in {} |-> [public_id |-> ""]]

MissingFile == [state |-> "missing", data |-> EmptyDb]

JsonFile(data) == [state |-> "ok", data |-> data]

PartialFile == [state |-> "partial", data |-> EmptyDb]

\* FileNotFoundError and JSONDecodeError both read as the empty mapping.
_load_database(file) == IF file.state = "ok" THEN file.data ELSE EmptyDb

get_video(public_id) ==
    LET db_data == _load_database(db_file)
    IN  IF public_id \in DOMAIN db_data
        THEN [found |-> TRUE, media_data |-> db_data[public_id]]
        ELSE [found |-> FALSE, media_data |-> [public_id |-> ""]]

\* dict[key] = value
DictSet(dict, key, value) ==
    [k \in DOMAIN dict \cup {key} |-> IF k = key THEN value ELSE dict[k]]

\* del dict[key]
DictDel(dict, key) == [k \in DOMAIN dict \ {key} |-> dict[k]]

\* store_video's mapping to save: created_at and updated_at are stamped.
store_video_data(public_id, video_data) ==
    DictSet(_load_database(db_file), public_id,
            DictSet(DictSet(video_data, "created_at", now), "updated_at", now))

\* update_video's mapping to save; the store is left alone for an unknown id.
update_video_data(public_id, video_data) ==
    LET db_data == _load_database(db_file)
    IN  IF public_id \in DOMAIN db_data
        THEN DictSet(db_data, public_id, DictSet(video_data, "updated_at", now))
        ELSE db_data

\* _save_database run to its end without an error: the new document is in
\* place and the backup is gone.
SavedFile(data) == JsonFile(data)

---------------------------------------------------------------------------
(* Paths: strings of characters, as os.path treats them on POSIX.        *)

Slash == "/"

StartsWith(s, prefix) ==
    Len(s) >= Len(prefix) /\ SubSeq(s, 1, Len(prefix)) = prefix

EndsWith(s, suffix) ==
    Len(s) >= Len(suffix) /\ SubSeq(s, Len(s) - Len(suffix) + 1, Len(s)) = suffix

\* needle in s, for strings
Contains(s, needle) ==
    \E i \in 1..(Len(s) - Len(needle) + 1) :
        SubSeq(s, i, i + Len(needle) - 1) = needle

\* s.split(sep) for a one-character separator
RECURSIVE SplitFrom(_, _, _, _)
SplitFrom(s, sep, i, cur) ==
    IF i > Len(s) THEN <<cur>>
    ELSE IF s[i] = sep THEN <<cur>> \o SplitFrom(s, sep, i + 1, <<>>)
    ELSE SplitFrom(s, sep, i + 1, Append(cur, s[i]))

Split(s, sep) == SplitFrom(s, sep, 1, <<>>)

\* os.path.join(a, b)
path_join(a, b) ==
    IF StartsWith(b, <<Slash>>) THEN b
    ELSE IF a = <<>> \/ EndsWith(a, <<Slash>>) THEN a \o b
    ELSE a \o <<Slash>> \o b

\* The components normpath keeps: empty and "." dropped, ".." cancelling
\* the component before it (kept when nothing is left in a relative path).
RECURSIVE NormComps(_, _, _, _)
NormComps(comps, i, acc, absolute) ==
    IF i > Len(comps) THEN acc
    ELSE LET c == comps[i] IN
         IF c = <<>> \/ c = <<".">> THEN NormComps(comps, i + 1, acc, absolute)
         ELSE IF c = <<".", ".">>
         THEN IF acc # <<>> /\ acc[Len(acc)] # <<".", ".">>
              THEN NormComps(comps, i + 1, SubSeq(acc, 1, Len(acc) - 1), absolute)
              ELSE IF absolute
              THEN NormComps(comps, i + 1, acc, absolute)
              ELSE NormComps(comps, i + 1, Append(acc, c), absolute)
         ELSE NormComps(comps, i + 1, Append(acc, c), absolute)

RECURSIVE JoinComps(_, _)
JoinComps(comps, i) ==
    IF i > Len(comps) THEN <<>>
    ELSE IF i = Len(comps) THEN comps[i]
    ELSE comps[i] \o <<Slash>> \o JoinComps(comps, i + 1)

\* os.path.normpath(path)
normpath(path) ==
    LET absolute == StartsWith(path, <<Slash>>)
        comps == NormComps(Split(path, Slash), 1, <<>>, absolute)
        body == JoinComps(comps, 1)
    IN  IF absolute THEN <<Slash>> \o body
        ELSE IF body = <<>> THEN <<".">>
        ELSE body

\* os.getcwd() of the server process
Cwd == <<"/", "a", "p", "p">>

\* os.path.abspath(path)
abspath(path) ==
    IF StartsWith(path, <<Slash>>) THEN normpath(path)
    ELSE normpath(path_join(Cwd, path))

\* os.path.exists(path)
path_exists(path) == abspath(path) \in files

\* shutil.rmtree(dir): the directory and everything below it
rmtree(fs, dir) ==
    {f \in fs : f # abspath(dir) /\ ~StartsWith(f, abspath(dir) \o <<Slash>>)}

---------------------------------------------------------------------------
(* main.py: names and identifiers *)

MEDIA_ROOT == <<"m", "e", "d", "i", "a">>
HLS_ROOT == path_join(MEDIA_ROOT, <<"h", "l", "s">>)

PlaylistName == <<"p", "l", "a", "y", "l", "i", "s", "t", ".", "m", "3", "u", "8">>
TsSuffix == <<".", "t", "s">>
Mp4Suffix == <<".", "m", "p", "4">>
DotDot == <<".", ".">>
Digits == <<"0", "1", "2", "3", "4", "5", "6", "7", "8", "9">>

\* "segment%d.ts", ffmpeg's -hls_segment_filename
SegmentFile(n) == <<"s", "e", "g", "m", "e", "n", "t", Digits[n + 1]>> \o TsSuffix

\* The uuid4().hex values the n-th upload draws: all different.
PublicIds == <<"m1", "m2">>
InternalId(n) == <<"d", Digits[n + 1]>>
AccessKey(n) == <<"a", Digits[n + 1]>>
AdminKey(n) == <<"b", Digits[n + 1]>>

hls_dir_of(internal_id) == path_join(HLS_ROOT, internal_id)
playlist_path_of(internal_id) == path_join(hls_dir_of(internal_id), PlaylistName)

\* What a successful ffmpeg run leaves in output_dir: the playlist and
\* nseg segments.
generate_hls_files(output_dir, nseg) ==
    {abspath(path_join(output_dir, PlaylistName))}
    \cup {abspath(path_join(output_dir, SegmentFile(k))) : k \in 0..(nseg - 1)}

---------------------------------------------------------------------------
(* main.py: the handlers.  Each is an operator giving the response and   *)
(* the store, the files and the handed-out tokens it leaves behind.      *)

NoBody == [kind |-> "none"]

\* raise HTTPException(status_code, detail)
HTTPException(status_code, detail) ==
    [status |-> status_code, detail |-> detail, body |-> NoBody]

Ok(body) == [status |-> 200, detail |-> "", body |-> body]

\* raise HTTPException(500, f"Encoding failed: {str(e)}!"), where str(e) is
\* "FFmpeg error: " and what ffmpeg wrote to stderr; ffmpeg names its input
\* file there.
EncodingFailed(video_path) ==
    [status |-> 500, detail |-> "Encoding failed!",
     body |-> [kind |-> "stderr", text |-> video_path]]

\* The handler ends with this response and has changed nothing.
Answer(response) ==
    [resp |-> response, db_file |-> db_file, files |-> files, tokens |-> tokens]

\* dict.get(key, default)
DictGet(dict, key, default) == IF key \in DOMAIN dict THEN dict[key] ELSE default

\* f"{request.base_url}stream/{media_id}/playlist.m3u8?token={access_token}"
playlist_url(media_id, access_token) ==
    [media_id |-> media_id, name |-> PlaylistName, token |-> access_token]

\* os.remove(path)
os_remove(fs, path) == fs \ {abspath(path)}

\* What an ffmpeg run that fails has left in output_dir by then.
partial_hls_files(output_dir) == {abspath(path_join(output_dir, SegmentFile(0)))}

\* A variant of upload_media: the output directory is left behind when the
\* encoder fails.
upload_media_outcome_NoRmtree(expiry_minutes, nseg, token_id) ==
    LET n == uploads + 1
        internal_media_id == InternalId(n)
        public_media_id == PublicIds[n]
        access_key == AccessKey(n)
        admin_key == AdminKey(n)
        media_path == path_join(HLS_ROOT, internal_media_id \o Mp4Suffix)
        hls_dir == hls_dir_of(internal_media_id)
        made == files \cup {abspath(hls_dir)}
        written == made \cup {abspath(media_path)}
        media_data == [public_id |-> public_media_id,
                       internal_id |-> internal_media_id,
                       access_key |-> access_key,
                       admin_key |-> admin_key,
                       upload_time |-> now,
                       expiry_minutes |-> expiry_minutes]
        access_token == create_access_token_at(public_media_id, access_key,
                                               expiry_minutes, token_id)
    IN  IF nseg = 0
        THEN [resp |-> EncodingFailed(media_path),
              db_file |-> db_file,
              files |-> os_remove(written \cup partial_hls_files(hls_dir), media_path),
              tokens |-> tokens]
        ELSE [resp |-> Ok([media_id |-> public_media_id,
                           access_token |-> access_token,
                           admin_key |-> admin_key,
                           playlist_url |-> playlist_url(public_media_id, access_token),
                           expires_in_minutes |-> expiry_minutes]),
              db_file |-> SavedFile(store_video_data(public_media_id, media_data)),
              files |-> os_remove(written \cup generate_hls_files(hls_dir, nseg),
                                  media_path),
              tokens |-> tokens \cup {access_token}]

\* nseg = 0: generate_hls raises (ffmpeg exits with an error).
upload_media_outcome(expiry_minutes, nseg, token_id) ==
    LET n == uploads + 1
        internal_media_id == InternalId(n)
        public_media_id == PublicIds[n]
        access_key == AccessKey(n)
        admin_key == AdminKey(n)
        media_path == path_join(HLS_ROOT, internal_media_id \o Mp4Suffix)
        hls_dir == hls_dir_of(internal_media_id)
        made == files \cup {abspath(hls_dir)}
        written == made \cup {abspath(media_path)}
        media_data == [public_id |-> public_media_id,
                       internal_id |-> internal_media_id,
                       access_key |-> access_key,
                       admin_key |-> admin_key,
                       upload_time |-> now,
                       expiry_minutes |-> expiry_minutes]
        access_token == create_access_token_at(public_media_id, access_key,
                                               expiry_minutes, token_id)
    IN  IF nseg = 0
        THEN [resp |-> EncodingFailed(media_path),
              db_file |-> db_file,
              files |-> os_remove(rmtree(written \cup partial_hls_files(hls_dir), hls_dir),
                                  media_path),
              tokens |-> tokens]
        ELSE [resp |-> Ok([media_id |-> public_media_id,
                           access_token |-> access_token,
                           admin_key |-> admin_key,
                           playlist_url |-> playlist_url(public_media_id, access_token),
                           expires_in_minutes |-> expiry_minutes]),
              db_file |-> SavedFile(store_video_data(public_media_id, media_data)),
              files |-> os_remove(written \cup generate_hls_files(hls_dir, nseg),
                                  media_path),
              tokens |-> tokens \cup {access_token}]

\* A variant of refresh_access_token: the record gets a new access key, under
\* which the new token is signed.
refresh_access_token_outcome_NewKey(media_id, admin_key, expiry_minutes, token_id) ==
    LET got == get_video(media_id)
        media_data == got.media_data
        access_key == media_data["access_key"] \o <<"r">>
        access_token == create_access_token_at(media_id, access_key,
                                               expiry_minutes, token_id)
        updated == DictSet(DictSet(DictSet(media_data, "access_key", access_key),
                                   "expiry_minutes", expiry_minutes),
                           "last_token_refresh", now)
    IN  IF ~got.found
        THEN Answer(HTTPException(404, "Media not found!"))
        ELSE IF DictGet(media_data, "admin_key", <<>>) # admin_key
        THEN Answer(HTTPException(403, "Invalid admin key!"))
        ELSE IF ~path_exists(playlist_path_of(media_data["internal_id"]))
        THEN Answer(HTTPException(404, "Media files not found!"))
        ELSE [resp |-> Ok([media_id |-> media_id,
                           access_token |-> access_token,
                           playlist_url |-> playlist_url(media_id, access_token),
                           expires_in_minutes |-> expiry_minutes]),
              db_file |-> SavedFile(update_video_data(media_id, updated)),
              files |-> files,
              tokens |-> tokens \cup {access_token}]

\* A variant of refresh_access_token: the playlist is not looked for.
refresh_access_token_outcome_NoFilesCheck(media_id, admin_key, expiry_minutes, token_id) ==
    LET got == get_video(media_id)
        media_data == got.media_data
        access_token == create_access_token_at(media_id, media_data["access_key"],
                                               expiry_minutes, token_id)
        updated == DictSet(DictSet(media_data, "expiry_minutes", expiry_minutes),
                           "last_token_refresh", now)
    IN  IF ~got.found
        THEN Answer(HTTPException(404, "Media not found!"))
        ELSE IF DictGet(media_data, "admin_key", <<>>) # admin_key
        THEN Answer(HTTPException(403, "Invalid admin key!"))
        ELSE [resp |-> Ok([media_id |-> media_id,
                           access_token |-> access_token,
                           playlist_url |-> playlist_url(media_id, access_token),
                           expires_in_minutes |-> expiry_minutes]),
              db_file |-> SavedFile(update_video_data(media_id, updated)),
              files |-> files,
              tokens |-> tokens \cup {access_token}]

refresh_access_token_outcome(media_id, admin_key, expiry_minutes, token_id) ==
    LET got == get_video(media_id)
        media_data == got.media_data
        access_token == create_access_token_at(media_id, media_data["access_key"],
                                               expiry_minutes, token_id)
        updated == DictSet(DictSet(media_data, "expiry_minutes", expiry_minutes),
                           "last_token_refresh", now)
    IN  IF ~got.found
        THEN Answer(HTTPException(404, "Media not found!"))
        ELSE IF DictGet(media_data, "admin_key", <<>>) # admin_key
        THEN Answer(HTTPException(403, "Invalid admin key!"))
        ELSE IF ~path_exists(playlist_path_of(media_data["internal_id"]))
        THEN Answer(HTTPException(404, "Media files not found!"))
        ELSE [resp |-> Ok([media_id |-> media_id,
                           access_token |-> access_token,
                           playlist_url |-> playlist_url(media_id, access_token),
                           expires_in_minutes |-> expiry_minutes]),
              db_file |-> SavedFile(update_video_data(media_id, updated)),
              files |-> files,
              tokens |-> tokens \cup {access_token}]

\* rewrite_playlist_with_auth_urls(playlist_path, media_id, access_token), by name
PlaylistBody(playlist_path, media_id, access_token) ==
    [kind |-> "playlist", path |-> abspath(playlist_path),
     media_id |-> media_id, token |-> access_token]

\* A variant of get_playlist: the token is never verified.
get_playlist_outcome_NoVerify(media_id, access_token) ==
    LET got == get_video(media_id)
        media_data == got.media_data
        playlist_path == playlist_path_of(media_data["internal_id"])
    IN  IF ~got.found
        THEN Answer(HTTPException(404, "Media not found!"))
        ELSE IF ~path_exists(playlist_path)
        THEN Answer(HTTPException(404, "Playlist not found!"))
        ELSE Answer(Ok(PlaylistBody(playlist_path, media_id, access_token)))

get_playlist_outcome(media_id, access_token) ==
    LET got == get_video(media_id)
        media_data == got.media_data
        playlist_path == playlist_path_of(media_data["internal_id"])
    IN  IF ~got.found
        THEN Answer(HTTPException(404, "Media not found!"))
        ELSE IF ~verify_access_token(access_token, media_id, media_data["access_key"])
        THEN Answer(HTTPException(403, "Invalid or expired access token!"))
        ELSE IF ~path_exists(playlist_path)
        THEN Answer(HTTPException(404, "Playlist not found!"))
        ELSE Answer(Ok(PlaylistBody(playlist_path, media_id, access_token)))

\* A variant of line 150: the test for '..' left out.
invalid_segment_name_NoDotDot(segment_name) ==
    \/ ~EndsWith(segment_name, TsSuffix)
    \/ Contains(segment_name, <<Slash>>)

\* main.py line 150
invalid_segment_name(segment_name) ==
    \/ ~EndsWith(segment_name, TsSuffix)
    \/ Contains(segment_name, <<Slash>>)
    \/ Contains(segment_name, DotDot)

\* FileResponse(path)
FileBody(path) == [kind |-> "file", path |-> path]

\* main.py lines 149-163, once the record and the token are accepted
serve_segment(internal_id, segment_name) ==
    LET segment_path == path_join(hls_dir_of(internal_id), segment_name)
        abs_hls_dir == abspath(hls_dir_of(internal_id))
        norm_segment_path == abspath(normpath(segment_path))
    IN  IF invalid_segment_name(segment_name)
        THEN HTTPException(400, "Invalid segment name!")
        ELSE IF ~StartsWith(norm_segment_path, abs_hls_dir \o <<Slash>>)
        THEN HTTPException(400, "Invalid segment path!")
        ELSE IF ~path_exists(norm_segment_path)
        THEN HTTPException(404, "Segment not found")
        ELSE Ok(FileBody(norm_segment_path))

get_segment_outcome(media_id, segment_name, access_token) ==
    LET got == get_video(media_id)
        media_data == got.media_data
    IN  IF ~got.found
        THEN Answer(HTTPException(404, "Media not found!"))
        ELSE IF ~verify_access_token(access_token, media_id, media_data["access_key"])
        THEN Answer(HTTPException(403, "Invalid or expired access token!"))
        ELSE Answer(serve_segment(media_data["internal_id"], segment_name))

\* A variant of delete_media: the admin key is never compared.
delete_media_outcome_NoKeyCheck(media_id, admin_key) ==
    LET got == get_video(media_id)
        media_data == got.media_data
        hls_dir == hls_dir_of(media_data["internal_id"])
        contents == _load_database(db_file)
    IN  IF ~got.found
        THEN Answer(HTTPException(404, "Media not found!"))
        ELSE [resp |-> Ok([message |-> "Media successfully deleted!"]),
              db_file |-> SavedFile(DictDel(contents, media_id)),
              files |-> IF path_exists(hls_dir) THEN rmtree(files, hls_dir) ELSE files,
              tokens |-> tokens]

\* A variant of delete_media: the directory is removed, the record is kept.
delete_media_outcome_KeepsRecord(media_id, admin_key) ==
    LET got == get_video(media_id)
        media_data == got.media_data
        hls_dir == hls_dir_of(media_data["internal_id"])
    IN  IF ~got.found
        THEN Answer(HTTPException(404, "Media not found!"))
        ELSE IF DictGet(media_data, "admin_key", <<>>) # admin_key
        THEN Answer(HTTPException(403, "Invalid admin key!"))
        ELSE [resp |-> Ok([message |-> "Media successfully deleted!"]),
              db_file |-> db_file,
              files |-> IF path_exists(hls_dir) THEN rmtree(files, hls_dir) ELSE files,
              tokens |-> tokens]

delete_media_outcome(media_id, admin_key) ==
    LET got == get_video(media_id)
        media_data == got.media_data
        hls_dir == hls_dir_of(media_data["internal_id"])
        contents == _load_database(db_file)
    IN  IF ~got.found
        THEN Answer(HTTPException(404, "Media not found!"))
        ELSE IF DictGet(media_data, "admin_key", <<>>) # admin_key
        THEN Answer(HTTPException(403, "Invalid admin key!"))
        ELSE [resp |-> Ok([message |-> "Media successfully deleted!"]),
              db_file |-> SavedFile(DictDel(contents, media_id)),
              files |-> IF path_exists(hls_dir) THEN rmtree(files, hls_dir) ELSE files,
              tokens |-> tokens]

NoneValue == -1

\* A variant of get_media_info: the record's admin key is part of the answer.
get_media_info_outcome_WithKeys(media_id, admin_key) ==
    LET got == get_video(media_id)
        media_data == got.media_data
    IN  IF ~got.found
        THEN Answer(HTTPException(404, "Media not found!"))
        ELSE IF DictGet(media_data, "admin_key", <<>>) # admin_key
        THEN Answer(HTTPException(403, "Invalid admin key!"))
        ELSE Answer(Ok([media_id |-> media_id,
                        admin_key |-> media_data["admin_key"],
                        upload_time |-> media_data["upload_time"],
                        expiry_minutes |-> DictGet(media_data, "expiry_minutes", 60),
                        last_token_refresh |->
                            DictGet(media_data, "last_token_refresh", NoneValue),
                        created_at |-> DictGet(media_data, "created_at", NoneValue),
                        updated_at |-> DictGet(media_data, "updated_at", NoneValue)]))

get_media_info_outcome(media_id, admin_key) ==
    LET got == get_video(media_id)
        media_data == got.media_data
    IN  IF ~got.found
        THEN Answer(HTTPException(404, "Media not found!"))
        ELSE IF DictGet(media_data, "admin_key", <<>>) # admin_key
        THEN Answer(HTTPException(403, "Invalid admin key!"))
        ELSE Answer(Ok([media_id |-> media_id,
                        upload_time |-> media_data["upload_time"],
                        expiry_minutes |-> DictGet(media_data, "expiry_minutes", 60),
                        last_token_refresh |->
                            DictGet(media_data, "last_token_refresh", NoneValue),
                        created_at |-> DictGet(media_data, "created_at", NoneValue),
                        updated_at |-> DictGet(media_data, "updated_at", NoneValue)]))

Min(a, b) == IF a <= b THEN a ELSE b

\* A variant of extend_media_expiry: the sum is not capped.
extend_media_expiry_outcome_NoCap(media_id, admin_key, additional_minutes) ==
    LET got == get_video(media_id)
        media_data == got.media_data
        current_expiry == DictGet(media_data, "expiry_minutes", 60)
        new_expiry == current_expiry + additional_minutes
        updated == DictSet(DictSet(media_data, "expiry_minutes", new_expiry),
                           "expiry_extended_at", now)
    IN  IF ~got.found
        THEN Answer(HTTPException(404, "Media not found!"))
        ELSE IF DictGet(media_data, "admin_key", <<>>) # admin_key
        THEN Answer(HTTPException(403, "Invalid admin key!"))
        ELSE [resp |-> Ok([media_id |-> media_id,
                           previous_expiry_minutes |-> current_expiry,
                           new_expiry_minutes |-> new_expiry,
                           extended_by_minutes |-> new_expiry - current_expiry]),
              db_file |-> SavedFile(update_video_data(media_id, updated)),
              files |-> files,
              tokens |-> tokens]

\* A variant of extend_media_expiry: the admin key compared before the
\* record is looked for.
extend_media_expiry_outcome_KeyFirst(media_id, admin_key, additional_minutes) ==
    LET got == get_video(media_id)
        media_data == got.media_data
        current_expiry == DictGet(media_data, "expiry_minutes", 60)
        new_expiry == Min(current_expiry + additional_minutes, MaxExpiryMinutes)
        updated == DictSet(DictSet(media_data, "expiry_minutes", new_expiry),
                           "expiry_extended_at", now)
    IN  IF DictGet(media_data, "admin_key", <<>>) # admin_key
        THEN Answer(HTTPException(403, "Invalid admin key!"))
        ELSE IF ~got.found
        THEN Answer(HTTPException(404, "Media not found!"))
        ELSE [resp |-> Ok([media_id |-> media_id,
                           previous_expiry_minutes |-> current_expiry,
                           new_expiry_minutes |-> new_expiry,
                           extended_by_minutes |-> new_expiry - current_expiry]),
              db_file |-> SavedFile(update_video_data(media_id, updated)),
              files |-> files,
              tokens |-> tokens]

extend_media_expiry_outcome(media_id, admin_key, additional_minutes) ==
    LET got == get_video(media_id)
        media_data == got.media_data
        current_expiry == DictGet(media_data, "expiry_minutes", 60)
        new_expiry == Min(current_expiry + additional_minutes, MaxExpiryMinutes)
        updated == DictSet(DictSet(media_data, "expiry_minutes", new_expiry),
                           "expiry_extended_at", now)
    IN  IF ~got.found
        THEN Answer(HTTPException(404, "Media not found!"))
        ELSE IF DictGet(media_data, "admin_key", <<>>) # admin_key
        THEN Answer(HTTPException(403, "Invalid admin key!"))
        ELSE [resp |-> Ok([media_id |-> media_id,
                           previous_expiry_minutes |-> current_expiry,
                           new_expiry_minutes |-> new_expiry,
                           extended_by_minutes |-> new_expiry - current_expiry]),
              db_file |-> SavedFile(update_video_data(media_id, updated)),
              files |-> files,
              tokens |-> tokens]

NoToken == [kind |-> "none"]
NoVerdict == [fn |-> "none"]

---------------------------------------------------------------------------
(* HTTP level: requests are answered one at a time, each handler run     *)
(* from its first line to its response.                                  *)

HttpJtis == {"j1"}
MaxSegments == 1
MaxTokens == 2
MaxAdvances == 1

\* Time passes between requests in steps of a little more than a minute.
HttpClockStep == MinuteTicks + 1
HttpMaxClock == MaxAdvances * HttpClockStep

ExpiryInputs == {1, MaxExpiryMinutes}
AdditionalInputs == {MaxExpiryMinutes - 1, MaxExpiryMinutes}
RequestIds == {PublicIds[n] : n \in 1..Len(PublicIds)} \cup {"m0"}
AdminKeyInputs == {AdminKey(n) : n \in 1..Len(PublicIds)} \cup {<<"x">>}

\* A token for media_id made by someone who knows the record's access key
\* but not the server's secret.
ForgedToken(media_id) ==
    LET got == get_video(media_id)
        access_key == IF got.found THEN got.media_data["access_key"] ELSE <<"x">>
    IN  jwt_encode(
            [media_id |-> media_id,
             access_key_hash |-> hash_string(access_key),
             iat |-> NumericDate(now),
             exp |-> NumericDate(now + MaxExpiryMinutes * MinuteTicks),
             jti |-> "j1",
             token_type |-> "access"],
            generate_signing_key(<<"x">>, access_key))

\* The token query parameter: any string, among them the tokens handed out.
TokenInputs(media_id) ==
    tokens
    \cup {MalformedToken, ForgedToken(media_id),
          create_admin_token_at(AdminKey(1), DefaultAdminHours, "j1")}

SecretName == <<".", ".", "/", "s", "e", "c", "r", "e", "t">> \o TsSuffix
HttpSegmentNames == {SegmentFile(0), SegmentFile(3), SecretName}

NoRequest == [op |-> "none"]
NotLoaded == [done |-> FALSE, data |-> EmptyDb]

\* os.getenv("SECRET_KEY") when the variable is not set: None
NoEnvVar == <<>>

\* The worker threads of the server, and no thread at all.
Threads == {"t1", "t2"}
NoThread == "none"

\* A worker that is not handling a request.
IdleThread ==
    [op |-> "none", pc |-> "idle", media_id |-> "", minutes |-> 0,
     media_data |-> [public_id |-> ""], data |-> EmptyDb, next |-> "idle",
     status |-> 0]
NotRewritten == [media_id |-> "", auth_token |-> <<>>, content |-> <<>>, called |-> FALSE]
NoResponse == [status |-> 0, detail |-> "", body |-> NoBody]

StoreInit ==
    /\ db_file = JsonFile(EmptyDb)
    /\ backup_file = MissingFile

\* No call of _save_database is under way and nothing was loaded yet.
SaveIdle ==
    /\ save_pc = "idle"
    /\ save_data = EmptyDb
    /\ old_data = EmptyDb
    /\ loaded = NotLoaded

\* No worker thread handles a request and the lock is free.
RaceIdle ==
    /\ threads = [t \in Threads |-> IdleThread]
    /\ lock = NoThread

\* No playlist was read or rewritten yet.
RewriteIdle ==
    /\ playlist_file = <<>>
    /\ updated_playlist = NotRewritten

HttpInit ==
    /\ files = {abspath(MEDIA_ROOT), abspath(HLS_ROOT)}
    /\ uploads = 0
    /\ tokens = {}
    /\ req = NoRequest
    /\ resp = NoResponse

Init ==
    /\ now = 0
    /\ SECRET_KEY = EnvSecretKey
    /\ issued = NoToken
    /\ verdict = NoVerdict
    /\ StoreInit
    /\ HttpInit
    /\ SaveIdle
    /\ RaceIdle
    /\ environ = EnvSecretKey
    /\ RewriteIdle

\* The request is taken up, handled and answered.
Handle(request, outcome) ==
    /\ req = NoRequest
    /\ req' = request
    /\ resp' = outcome.resp
    /\ db_file' = outcome.db_file
    /\ files' = outcome.files
    /\ tokens' = outcome.tokens
    /\ UNCHANGED <<now, SECRET_KEY, environ, raceVars, tokVars, backup_file, rewriteVars, saveVars>>

upload_media(expiry_minutes, nseg, token_id) ==
    /\ uploads < Len(PublicIds)
    /\ Cardinality(tokens) < MaxTokens
    /\ Handle([op |-> "upload_media", expiry_minutes |-> expiry_minutes],
              upload_media_outcome(expiry_minutes, nseg, token_id))
    /\ uploads' = uploads + 1

refresh_access_token(media_id, admin_key, expiry_minutes, token_id) ==
    /\ Cardinality(tokens) < MaxTokens
    /\ Handle([op |-> "refresh_access_token", media_id |-> media_id,
               admin_key |-> admin_key, expiry_minutes |-> expiry_minutes],
              refresh_access_token_outcome(media_id, admin_key, expiry_minutes, token_id))
    /\ UNCHANGED uploads

get_playlist(media_id, access_token) ==
    /\ Handle([op |-> "get_playlist", media_id |-> media_id, token |-> access_token],
              get_playlist_outcome(media_id, access_token))
    /\ UNCHANGED uploads

get_segment(media_id, segment_name, access_token) ==
    /\ Handle([op |-> "get_segment", media_id |-> media_id,
               segment_name |-> segment_name, token |-> access_token],
              get_segment_outcome(media_id, segment_name, access_token))
    /\ UNCHANGED uploads

delete_media(media_id, admin_key) ==
    /\ Handle([op |-> "delete_media", media_id |-> media_id, admin_key |-> admin_key],
              delete_media_outcome(media_id, admin_key))
    /\ UNCHANGED uploads

get_media_info(media_id, admin_key) ==
    /\ Handle([op |-> "get_media_info", media_id |-> media_id, admin_key |-> admin_key],
              get_media_info_outcome(media_id, admin_key))
    /\ UNCHANGED uploads

extend_media_expiry(media_id, admin_key, additional_minutes) ==
    /\ Handle([op |-> "extend_media_expiry", media_id |-> media_id,
               admin_key |-> admin_key, additional_minutes |-> additional_minutes],
              extend_media_expiry_outcome(media_id, admin_key, additional_minutes))
    /\ UNCHANGED uploads

\* The response has gone out; the server waits for the next request.
Respond ==
    /\ req # NoRequest
    /\ req' = NoRequest
    /\ resp' = NoResponse
    /\ UNCHANGED <<now, SECRET_KEY, environ, raceVars, tokVars, storeVars, files, uploads, tokens,
                   rewriteVars, saveVars>>

Advance ==
    /\ req = NoRequest
    /\ now + HttpClockStep <= HttpMaxClock
    /\ now' = now + HttpClockStep
    /\ UNCHANGED <<SECRET_KEY, environ, raceVars, tokVars, storeVars, httpVars, rewriteVars, saveVars>>

Upload ==
    /\ req = NoRequest
    /\ \E expiry_minutes \in ExpiryInputs, nseg \in {0, MaxSegments}, token_id \in HttpJtis :
        upload_media(expiry_minutes, nseg, token_id)

Refresh ==
    /\ req = NoRequest
    /\ \E media_id \in RequestIds, admin_key \in AdminKeyInputs,
       expiry_minutes \in ExpiryInputs, token_id \in HttpJtis :
        refresh_access_token(media_id, admin_key, expiry_minutes, token_id)

Playlist ==
    /\ req = NoRequest
    /\ \E media_id \in RequestIds : \E access_token \in TokenInputs(media_id) :
        get_playlist(media_id, access_token)

Segment ==
    /\ req = NoRequest
    /\ \E media_id \in RequestIds, segment_name \in HttpSegmentNames :
        \E access_token \in TokenInputs(media_id) :
            get_segment(media_id, segment_name, access_token)

Delete ==
    /\ req = NoRequest
    /\ \E media_id \in RequestIds, admin_key \in AdminKeyInputs :
        delete_media(media_id, admin_key)

Info ==
    /\ req = NoRequest
    /\ \E media_id \in RequestIds, admin_key \in AdminKeyInputs :
        get_media_info(media_id, admin_key)

Extend ==
    /\ req = NoRequest
    /\ \E media_id \in RequestIds, admin_key \in AdminKeyInputs,
       additional_minutes \in AdditionalInputs :
        extend_media_expiry(media_id, admin_key, additional_minutes)

Next ==
    \/ Upload
    \/ Refresh
    \/ Playlist
    \/ Segment
    \/ Delete
    \/ Info
    \/ Extend
    \/ Respond
    \/ Advance

Spec == Init /\ [][Next]_vars

---------------------------------------------------------------------------
(* Segment level: media are uploaded and segments are asked for under    *)
(* every short name over the characters that matter to the checks.       *)

MaxNameLen == 4

NameChars == {".", "/", "t", "s", "x"}

RECURSIVE StringsOfLen(_)
StringsOfLen(n) ==
    IF n = 0 THEN {<<>>}
    ELSE {Append(w, c) : w \in StringsOfLen(n - 1), c \in NameChars}

ShortNames == UNION {StringsOfLen(n) : n \in 1..MaxNameLen}

\* "a/b.ts", "x.mp4", and another resource's segment reached through ".."
SubdirName == <<"a", "/", "b">> \o TsSuffix
Mp4Name == <<"x", ".", "m", "p", "4">>
SiblingName(n) == DotDot \o <<Slash>> \o InternalId(n) \o <<Slash>> \o SegmentFile(0)

SegNames ==
    ShortNames
    \cup HttpSegmentNames
    \cup {SubdirName, Mp4Name}
    \cup {SiblingName(n) : n \in 1..Len(PublicIds)}

SegmentProbe ==
    /\ req = NoRequest
    /\ \E media_id \in RequestIds, segment_name \in SegNames,
       access_token \in tokens \cup {MalformedToken} :
        get_segment(media_id, segment_name, access_token)

SegNext ==
    \/ Upload
    \/ SegmentProbe
    \/ Respond

SpecSeg == Init /\ [][SegNext]_vars

---------------------------------------------------------------------------
(* Codec level: one token is created, time passes, it is verified.       *)

TokInit ==
    /\ now = 0
    /\ SECRET_KEY = EnvSecretKey
    /\ issued = NoToken
    /\ verdict = NoVerdict
    /\ StoreInit
    /\ HttpInit
    /\ SaveIdle
    /\ RaceIdle
    /\ environ = EnvSecretKey
    /\ RewriteIdle

TokIssueAccess ==
    \E media_id \in MediaIds, access_key \in Keys,
       expiry_minutes \in Validities, token_id \in Jtis :
        /\ now <= MaxIssueTick
        /\ issued' = [kind |-> "access",
                      token |-> create_access_token_at(media_id, access_key,
                                                       expiry_minutes, token_id),
                      media_id |-> media_id, key |-> access_key,
                      minutes |-> expiry_minutes, at |-> now]
        /\ verdict' = NoVerdict
        /\ UNCHANGED <<now, SECRET_KEY, environ, raceVars, storeVars, httpVars, rewriteVars, saveVars>>

TokIssueAdmin ==
    \E admin_key \in Keys, expiry_hours \in ExpiryHours, token_id \in Jtis :
        /\ now <= MaxIssueTick
        /\ issued' = [kind |-> "admin",
                      token |-> create_admin_token_at(admin_key, expiry_hours, token_id),
                      media_id |-> "", key |-> admin_key,
                      minutes |-> expiry_hours * MinutesPerHour, at |-> now]
        /\ verdict' = NoVerdict
        /\ UNCHANGED <<now, SECRET_KEY, environ, raceVars, storeVars, httpVars, rewriteVars, saveVars>>

TokVerifyAccess ==
    \E expected_video_id \in MediaIds, access_key \in Keys :
        /\ issued # NoToken
        /\ verdict' = [fn |-> "verify_access_token",
                       media_id |-> expected_video_id, key |-> access_key,
                       ok |-> verify_access_token(issued.token, expected_video_id,
                                                  access_key)]
        /\ UNCHANGED <<now, SECRET_KEY, environ, raceVars, issued, storeVars, httpVars, rewriteVars, saveVars>>

TokVerifyAdmin ==
    \E admin_key \in Keys :
        /\ issued # NoToken
        /\ verdict' = [fn |-> "verify_admin_token",
                       media_id |-> "", key |-> admin_key,
                       ok |-> verify_admin_token(issued.token, admin_key)]
        /\ UNCHANGED <<now, SECRET_KEY, environ, raceVars, issued, storeVars, httpVars, rewriteVars, saveVars>>

\* Time passes; a verdict describes a verification made at the current instant.
TokTick ==
    /\ now < MaxClock
    /\ now' = now + 1
    /\ verdict' = NoVerdict
    /\ UNCHANGED <<SECRET_KEY, environ, raceVars, issued, storeVars, httpVars, rewriteVars, saveVars>>

TokNext ==
    \/ TokIssueAccess
    \/ TokIssueAdmin
    \/ TokVerifyAccess
    \/ TokVerifyAdmin
    \/ TokTick

SpecTok == TokInit /\ [][TokNext]_vars

---------------------------------------------------------------------------
(* Claims on the token codec, checked under SpecTok *)

\* The last verification was verify_access_token on a token made by
\* create_access_token, for the resource and with the key it was made for.
OwnVerdict ==
    /\ issued.kind = "access"
    /\ verdict.fn = "verify_access_token"
    /\ verdict.media_id = issued.media_id
    /\ verdict.key = issued.key

\* The instant the token's validity was asked to end: issuedAt + m minutes.
StatedExpiry == issued.at + issued.minutes * MinuteTicks

\* The instant the token's exp claim names: issuedAt cut to a whole second,
\* + m minutes.
EncodedExpiry == NumericDate(issued.at) * TicksPerSecond + issued.minutes * MinuteTicks

\* C1 as stated: a token made by create_access_token(r, k, m) is accepted by
\* verify_access_token(token, r, k) at every time strictly before
\* issuedAt + m minutes.
C1_RoundTripUntilStatedExpiry ==
    (OwnVerdict /\ now < StatedExpiry) => verdict.ok

\* C1 as amended: a token made by create_access_token(r, k, m) is accepted by
\* verify_access_token(token, r, k) at every time strictly before its exp
\* claim, which is issuedAt cut to a whole second + m minutes.
C1_RoundTripUntilEncodedExpiry ==
    (OwnVerdict /\ now < EncodedExpiry) => verdict.ok

\* A token issued at a fractional second is accepted a minute minus a second later.
C1_Witness ==
    /\ OwnVerdict
    /\ issued.at % TicksPerSecond # 0
    /\ now = EncodedExpiry - 1
    /\ verdict.ok

\* C2: a token issued for resource A is rejected by verify_access_token for
\* any other resource B, whatever access key B has (different from A's or
\* equal to it).
C2_CrossResourceRejected ==
    (/\ issued.kind = "access"
     /\ verdict.fn = "verify_access_token"
     /\ verdict.media_id # issued.media_id) => ~verdict.ok

\* An unexpired token, still good for its own resource, is rejected for another
\* resource that has the same access key.
C2_Witness ==
    /\ issued.kind = "access"
    /\ verdict.fn = "verify_access_token"
    /\ verdict.media_id # issued.media_id
    /\ verdict.key = issued.key
    /\ verify_access_token(issued.token, issued.media_id, issued.key)
    /\ ~verdict.ok

\* C3: verify_access_token rejects a token at every time after issuedAt + m
\* minutes; one second before that instant the token is accepted for its own
\* resource and key, one second after it is rejected.
C3_Expiry ==
    /\ (/\ issued.kind = "access"
        /\ verdict.fn = "verify_access_token"
        /\ now > StatedExpiry) => ~verdict.ok
    /\ (OwnVerdict /\ now = StatedExpiry - TicksPerSecond) => verdict.ok
    /\ (OwnVerdict /\ now = StatedExpiry + TicksPerSecond) => ~verdict.ok

\* A token is verified for its own resource and key one second after expiry.
C3_Witness ==
    /\ OwnVerdict
    /\ now = StatedExpiry + TicksPerSecond
    /\ ~verdict.ok

\* C4: a token made by create_admin_token is rejected by verify_access_token
\* for every resource and key, and a token made by create_access_token is
\* rejected by verify_admin_token for every key, the same key string included.
C4_KindsDoNotCross ==
    /\ (issued.kind = "admin" /\ verdict.fn = "verify_access_token") => ~verdict.ok
    /\ (issued.kind = "access" /\ verdict.fn = "verify_admin_token") => ~verdict.ok

\* An admin token is handed to verify_access_token with the very key string
\* it was made with.
C4_Witness ==
    /\ issued.kind = "admin"
    /\ verdict.fn = "verify_access_token"
    /\ verdict.key = issued.key
    /\ ~verdict.ok

---------------------------------------------------------------------------
(* Claims on the HTTP handlers, checked under Spec and SpecSeg *)

ContentOps == {"get_playlist", "get_segment"}
AdminOps == {"refresh_access_token", "delete_media", "get_media_info",
             "extend_media_expiry"}

\* The record the request names is in the store.
Known(media_id) == media_id \in DOMAIN _load_database(db_file)

RecordOf(media_id) == _load_database(db_file)[media_id]

\* C5: get_playlist and get_segment return content only if a record for
\* media_id exists and verify_access_token(token, media_id, its access_key)
\* is true at that request; with a record and any other token the answer is
\* 403 'Invalid or expired access token!', and no request ends in an error
\* raised by the verification.
C5_ContentGate ==
    req.op \in ContentOps =>
        /\ resp.status = 200 =>
              /\ Known(req.media_id)
              /\ verify_access_token(req.token, req.media_id,
                                     RecordOf(req.media_id).access_key)
        /\ (/\ Known(req.media_id)
            /\ ~verify_access_token(req.token, req.media_id,
                                    RecordOf(req.media_id).access_key))
              => resp = HTTPException(403, "Invalid or expired access token!")
        /\ resp.status \in {200, 400, 403, 404}

\* A token the server handed out for this very resource is refused once it
\* has expired.
C5_Witness ==
    /\ req.op = "get_playlist"
    /\ Known(req.media_id)
    /\ req.token \in tokens
    /\ req.token.payload.media_id = req.media_id
    /\ resp.status = 403

\* The stores and directories a request can change.
Kept == <<db_file, backup_file, files, tokens>>

\* C6: refresh-token, delete, info and extend-expiry take effect (a 200
\* answer, a changed store, changed files, a token issued) only when the
\* supplied admin_key equals the record's stored admin_key; with a record and
\* any other key the answer is 403 and store and directories are unchanged.
C6_AdminGate ==
    [][(req = NoRequest /\ req'.op \in AdminOps) =>
          LET got == get_video(req'.media_id)
              match == got.found /\ got.media_data.admin_key = req'.admin_key
          IN  /\ (resp'.status = 200 \/ Kept' # Kept) => match
              /\ (got.found /\ ~match) =>
                    /\ resp' = HTTPException(403, "Invalid admin key!")
                    /\ Kept' = Kept]_vars

\* A delete is refused although the key given is the admin key of another
\* record in the store.
C6_Witness ==
    /\ req.op = "delete_media"
    /\ Known(req.media_id)
    /\ \E other \in DOMAIN _load_database(db_file) :
          /\ other # req.media_id
          /\ RecordOf(other).admin_key = req.admin_key
    /\ resp.status = 403
    /\ path_exists(playlist_path_of(RecordOf(req.media_id).internal_id))

\* C7: for every content and admin operation, a request naming a media_id
\* with no record is answered 404 'Media not found!', whatever token or
\* admin key it carries, and changes nothing.
C7_NotFoundFirst ==
    [][(/\ req = NoRequest
        /\ req'.op \in ContentOps \cup AdminOps
        /\ ~get_video(req'.media_id).found) =>
          /\ resp' = HTTPException(404, "Media not found!")
          /\ Kept' = Kept]_vars

\* An admin request for an unknown media_id carries the admin key of a record
\* that does exist, and is answered 404.
C7_Witness ==
    /\ req.op = "extend_media_expiry"
    /\ ~Known(req.media_id)
    /\ \E other \in DOMAIN _load_database(db_file) :
          RecordOf(other).admin_key = req.admin_key
    /\ resp.status = 404

\* The names C8 speaks of: not ending in '.ts', or holding '/' or '..'.
BadName(name) ==
    \/ Len(name) < 3
    \/ <<name[Len(name) - 2], name[Len(name) - 1], name[Len(name)]>> # <<".", "t", "s">>
    \/ \E i \in 1..Len(name) : name[i] = "/"
    \/ \E i \in 1..(Len(name) - 1) : name[i] = "." /\ name[i + 1] = "."

\* The request passed the record and token checks of get_segment.
Authorised ==
    /\ Known(req.media_id)
    /\ verify_access_token(req.token, req.media_id, RecordOf(req.media_id).access_key)

\* The storage directory of the requested resource, as an absolute path.
StorageDir == Cwd \o <<Slash>> \o HLS_ROOT \o <<Slash>> \o RecordOf(req.media_id).internal_id

\* C8: get_segment never serves a name that does not end in '.ts' or holds
\* '/' or '..', and answers it 400 once record and token are accepted; every
\* file served exists, its path is the storage directory of the requested
\* resource followed by one plain file name; a good name is served exactly
\* when that file exists there and is answered 404 otherwise.
C8_PathSafety ==
    req.op = "get_segment" =>
        /\ BadName(req.segment_name) =>
              /\ resp.status # 200
              /\ Authorised => resp.status = 400
        /\ resp.status = 200 =>
              /\ resp.body.path = StorageDir \o <<Slash>> \o req.segment_name
              /\ resp.body.path \in files
              /\ ~BadName(req.segment_name)
        /\ (Authorised /\ ~BadName(req.segment_name)) =>
              IF StorageDir \o <<Slash>> \o req.segment_name \in files
              THEN resp.status = 200
              ELSE resp.status = 404

\* An authorised request for a name that holds '..' and ends in '.ts'.
C8_Witness ==
    /\ req.op = "get_segment"
    /\ Authorised
    /\ req.segment_name = <<".", ".", "t", "s">>
    /\ resp.status = 400

---------------------------------------------------------------------------
(* Rewriter level: rewrite_playlist_with_auth_urls on the characters of  *)
(* a playlist.  The playlist is written by the external encoder, so its  *)
(* text is an input: up to MaxLines pieces, each a line of ManifestLines *)
(* followed by one of LineEndings.                                       *)

MaxLines == 2

LF == "\n"
CR == "\r"
Space == " "
Tab == "\t"

\* The characters str.strip() removes, among those of the model.
Whitespace == {Space, Tab, LF, CR}

StreamPrefix == <<"/", "s", "t", "r", "e", "a", "m", "/">>
TokenParam == <<"t", "o", "k", "e", "n", "=">>

TagLine == <<"#", Space, "E">>
ChunkLine == <<"s">> \o TsSuffix

ManifestLines ==
    {<<>>,
     TagLine,
     <<Space>> \o TagLine \o <<Tab>>,
     <<"d", Slash>> \o ChunkLine,
     <<Space>> \o ChunkLine \o <<Space>>,
     TokenParam \o TsSuffix}

LineEndings == {<<>>, <<LF>>, <<CR, LF>>, <<CR>>}

RECURSIVE TextsOf(_)
TextsOf(n) ==
    IF n = 0 THEN {<<>>}
    ELSE LET shorter == TextsOf(n - 1)
         IN  shorter \cup {t \o l \o e : t \in shorter, l \in ManifestLines,
                                         e \in LineEndings}

ManifestTexts == TextsOf(MaxLines)

RewriteTokens == {<<"j", "1">>, TokenParam \o <<"j">>}

\* open(playlist_path, "r"): '\r\n' and '\r' are read as '\n'.
RECURSIVE UniversalNewlines(_)
UniversalNewlines(text) ==
    IF text = <<>> THEN <<>>
    ELSE IF text[1] = CR
         THEN IF Len(text) >= 2 /\ text[2] = LF
              THEN <<LF>> \o UniversalNewlines(SubSeq(text, 3, Len(text)))
              ELSE <<LF>> \o UniversalNewlines(Tail(text))
         ELSE <<text[1]>> \o UniversalNewlines(Tail(text))

\* f.readlines(): every line keeps its '\n'; the last may have none.
RECURSIVE LinesFrom(_, _)
LinesFrom(text, cur) ==
    IF text = <<>> THEN (IF cur = <<>> THEN <<>> ELSE <<cur>>)
    ELSE IF text[1] = LF THEN <<Append(cur, LF)>> \o LinesFrom(Tail(text), <<>>)
    ELSE LinesFrom(Tail(text), Append(cur, text[1]))

readlines(text) == LinesFrom(UniversalNewlines(text), <<>>)

RECURSIVE lstrip(_)
lstrip(s) == IF s # <<>> /\ s[1] \in Whitespace THEN lstrip(Tail(s)) ELSE s

RECURSIVE rstrip(_)
rstrip(s) ==
    IF s # <<>> /\ s[Len(s)] \in Whitespace THEN rstrip(SubSeq(s, 1, Len(s) - 1)) ELSE s

\* line.strip()
strip(s) == rstrip(lstrip(s))

\* line.split("/")[-1]
segment_name_of(line) == LET parts == Split(line, Slash) IN parts[Len(parts)]

\* A variant of the loop body: the chunk line is kept as it is.
new_line_NoToken(line, media_id, auth_token) == strip(line) \o <<LF>>

\* The body of the loop: the line appended to new_lines.
new_line(line, media_id, auth_token) ==
    LET stripped == strip(line)
    IN  IF EndsWith(stripped, TsSuffix)
        THEN StreamPrefix \o <<media_id, Slash>> \o segment_name_of(stripped)
                 \o <<"?">> \o TokenParam \o auth_token \o <<LF>>
        ELSE stripped \o <<LF>>

\* "".join(new_lines)
RECURSIVE join(_)
join(lines) == IF lines = <<>> THEN <<>> ELSE lines[1] \o join(Tail(lines))

rewrite_playlist_with_auth_urls(text, media_id, auth_token) ==
    LET lines == readlines(text)
    IN  join([i \in 1..Len(lines) |-> new_line(lines[i], media_id, auth_token)])

RewriteInit ==
    /\ now = 0
    /\ SECRET_KEY = EnvSecretKey
    /\ issued = NoToken
    /\ verdict = NoVerdict
    /\ StoreInit
    /\ HttpInit
    /\ SaveIdle
    /\ RaceIdle
    /\ environ = EnvSecretKey
    /\ playlist_file \in ManifestTexts
    /\ updated_playlist = NotRewritten

\* get_playlist's call of the rewriter on the playlist as it is on disk.
RewritePlaylist ==
    \E n \in 1..Len(PublicIds), auth_token \in RewriteTokens :
        /\ updated_playlist' =
              [media_id |-> PublicIds[n], auth_token |-> auth_token,
               content |-> rewrite_playlist_with_auth_urls(playlist_file,
                                                           PublicIds[n], auth_token),
               called |-> TRUE]
        /\ UNCHANGED <<now, SECRET_KEY, environ, raceVars, tokVars, storeVars, httpVars,
                       playlist_file, saveVars>>

RewriteNext == RewritePlaylist

SpecRewrite == RewriteInit /\ [][RewriteNext]_vars

\* The lines of the playlist as read, and the lines of the rewritten text.
InLines == readlines(playlist_file)
OutLines == LinesFrom(updated_playlist.content, <<>>)

\* A line without its ending, read generously: the newline and any other
\* whitespace at the end of the line.
LineBody(line) ==
    LET solid == {i \in 1..Len(line) : line[i] \notin Whitespace}
    IN  IF solid = {} THEN <<>>
        ELSE SubSeq(line, 1, CHOOSE i \in solid : \A j \in solid : i >= j)

\* How many line endings ('\n', '\r\n', '\r') a text holds, plus one for a
\* last line without an ending.
LineCount(text) ==
    Cardinality({i \in 1..Len(text) :
                    \/ text[i] = LF
                    \/ text[i] = CR /\ (i = Len(text) \/ text[i + 1] # LF)})
    + (IF text # <<>> /\ text[Len(text)] \notin {LF, CR} THEN 1 ELSE 0)

\* The line from its first to its last character that is not whitespace.
Trimmed(line) ==
    LET solid == {i \in 1..Len(line) : line[i] \notin Whitespace}
    IN  IF solid = {} THEN <<>>
        ELSE SubSeq(line, CHOOSE i \in solid : \A j \in solid : i <= j,
                          CHOOSE i \in solid : \A j \in solid : i >= j)

\* What follows the last '/' of a line.
ChunkFilename(line) ==
    LET slashes == {i \in 1..Len(line) : line[i] = Slash}
    IN  IF slashes = {} THEN line
        ELSE SubSeq(line, (CHOOSE i \in slashes : \A j \in slashes : i >= j) + 1,
                          Len(line))

Occurrences(s, needle) ==
    Cardinality({i \in 1..(Len(s) - Len(needle) + 1) :
                    SubSeq(s, i, i + Len(needle) - 1) = needle})

\* '/stream/{media_id}/{chunkFilename}?token={token}' and its newline
AuthorisedUrlLine(chunk) ==
    StreamPrefix \o <<updated_playlist.media_id, Slash>> \o chunk \o <<"?">>
        \o TokenParam \o updated_playlist.auth_token \o <<LF>>

\* C9 as stated: same number of lines in the same order; a line ending in
\* '.ts' becomes '/stream/{media_id}/{chunkFilename}?token={token}' with
\* exactly one 'token='; every other line is passed through unchanged, its
\* line ending (whitespace at its end included) made a single newline.
C9_RewriteAsStated ==
    updated_playlist.called =>
        /\ Len(OutLines) = LineCount(playlist_file)
        /\ \A i \in 1..Len(InLines) :
              LET line == LineBody(InLines[i])
              IN  IF EndsWith(line, TsSuffix)
                  THEN /\ OutLines[i] = AuthorisedUrlLine(ChunkFilename(line))
                       /\ Occurrences(OutLines[i], TokenParam) = 1
                  ELSE OutLines[i] = line \o <<LF>>

\* C9, amended: same number of lines in the same order; a line that ends in
\* '.ts' once its leading and trailing whitespace is removed becomes
\* '/stream/{media_id}/{chunkFilename}?token={token}', which ends in the
\* supplied token and holds one 'token=' more than chunk file name and token
\* hold themselves; every other line is passed through with its leading and
\* trailing whitespace removed and a single newline after it.
C9_RewriteTrimmed ==
    updated_playlist.called =>
        /\ Len(OutLines) = LineCount(playlist_file)
        /\ Len(InLines) = LineCount(playlist_file)
        /\ \A i \in 1..Len(InLines) :
              LET line == Trimmed(InLines[i])
              IN  IF EndsWith(line, TsSuffix)
                  THEN /\ OutLines[i] = AuthorisedUrlLine(ChunkFilename(line))
                       /\ EndsWith(OutLines[i], <<"?">> \o TokenParam
                                       \o updated_playlist.auth_token \o <<LF>>)
                       /\ Occurrences(OutLines[i], TokenParam) =
                             1 + Occurrences(ChunkFilename(line), TokenParam)
                               + Occurrences(updated_playlist.auth_token, TokenParam)
                  ELSE OutLines[i] = line \o <<LF>>

\* A tag line between a space and a tab with a '\r\n' ending, then a chunk line
\* with a directory and no line ending, rewritten for m1 and token j1.
C9_Witness ==
    /\ updated_playlist.called
    /\ playlist_file = <<Space>> \o TagLine \o <<Tab, CR, LF>> \o <<"d", Slash>> \o ChunkLine
    /\ updated_playlist.content =
          TagLine \o <<LF>> \o StreamPrefix \o <<"m1", Slash>> \o ChunkLine
              \o <<"?">> \o TokenParam \o <<"j", "1", LF>>

---------------------------------------------------------------------------
(* Crash level: _save_database one file operation at a time, a process   *)
(* that can stop between any two of them, and the next process started   *)
(* on the files it left behind.                                          *)

CrashExpiries == {1, MaxExpiryMinutes}

\* The record upload_media stores, cut down to two of its fields.
CrashVideoData(n, expiry_minutes) ==
    [internal_id |-> InternalId(n), expiry_minutes |-> expiry_minutes]

\* store_video or update_video up to its call of _save_database(db_data).
SaveCall(db_data) ==
    /\ save_pc \in {"idle", "raised"}
    /\ save_pc' = "backup"
    /\ save_data' = db_data
    /\ old_data' = _load_database(db_file)
    /\ loaded' = NotLoaded
    /\ UNCHANGED <<now, SECRET_KEY, environ, raceVars, tokVars, storeVars, httpVars, rewriteVars>>

store_video_call ==
    \E n \in 1..Len(PublicIds), expiry_minutes \in CrashExpiries :
        SaveCall(store_video_data(PublicIds[n], CrashVideoData(n, expiry_minutes)))

update_video_call ==
    \E n \in 1..Len(PublicIds), expiry_minutes \in CrashExpiries :
        /\ PublicIds[n] \in DOMAIN _load_database(db_file)
        /\ SaveCall(update_video_data(PublicIds[n], CrashVideoData(n, expiry_minutes)))

\* delete_media: db_data = db._load_database(); del db_data[media_id];
\* db._save_database(db_data)
delete_media_call ==
    \E n \in 1..Len(PublicIds) :
        /\ PublicIds[n] \in DOMAIN _load_database(db_file)
        /\ SaveCall(DictDel(_load_database(db_file), PublicIds[n]))

\* if os.path.exists(self.db_path): os.rename(self.db_path, backup_path)
SaveRenameToBackup ==
    /\ save_pc = "backup"
    /\ save_pc' = "open"
    /\ IF db_file # MissingFile
       THEN /\ backup_file' = db_file
            /\ db_file' = MissingFile
       ELSE UNCHANGED storeVars
    /\ UNCHANGED <<now, SECRET_KEY, environ, raceVars, tokVars, httpVars, rewriteVars,
                   save_data, old_data, loaded>>

\* open(self.db_path, 'w'): the file is there and empty.
SaveOpen ==
    /\ save_pc = "open"
    /\ save_pc' = "dump"
    /\ db_file' = PartialFile
    /\ UNCHANGED <<now, SECRET_KEY, environ, raceVars, tokVars, backup_file, httpVars, rewriteVars,
                   save_data, old_data, loaded>>

\* json.dump(data, f, ...) and the end of the with block: the document is
\* written out whole.
SaveDump ==
    /\ save_pc = "dump"
    /\ save_pc' = "remove"
    /\ db_file' = JsonFile(save_data)
    /\ UNCHANGED <<now, SECRET_KEY, environ, raceVars, tokVars, backup_file, httpVars, rewriteVars,
                   save_data, old_data, loaded>>

\* if os.path.exists(backup_path): os.remove(backup_path)
SaveRemoveBackup ==
    /\ save_pc = "remove"
    /\ save_pc' = "idle"
    /\ backup_file' = MissingFile
    /\ UNCHANGED <<now, SECRET_KEY, environ, raceVars, tokVars, db_file, httpVars, rewriteVars,
                   save_data, old_data, loaded>>

\* A variant of the except branch: the backup is not renamed back.
SaveFail_NoRestore ==
    /\ save_pc \in {"open", "dump", "remove"}
    /\ save_pc' = "raised"
    /\ UNCHANGED storeVars
    /\ UNCHANGED <<now, SECRET_KEY, environ, raceVars, tokVars, httpVars, rewriteVars,
                   save_data, old_data, loaded>>

\* except Exception: open, json.dump or os.remove raised; the backup, if
\* there is one, is renamed back and the exception goes to the caller.
SaveFail ==
    /\ save_pc \in {"open", "dump", "remove"}
    /\ save_pc' = "raised"
    /\ IF backup_file # MissingFile
       THEN /\ db_file' = backup_file
            /\ backup_file' = MissingFile
       ELSE UNCHANGED storeVars
    /\ UNCHANGED <<now, SECRET_KEY, environ, raceVars, tokVars, httpVars, rewriteVars,
                   save_data, old_data, loaded>>

\* The process is stopped inside _save_database; the files stay as they are.
Crash ==
    /\ save_pc \in {"backup", "open", "dump", "remove"}
    /\ save_pc' = "down"
    /\ UNCHANGED <<now, SECRET_KEY, environ, raceVars, tokVars, storeVars, httpVars, rewriteVars,
                   save_data, old_data, loaded>>

\* The next process builds its VideoDatabase: _init_database writes '{}'
\* when there is no database file.
Restart ==
    /\ save_pc = "down"
    /\ save_pc' = "restarted"
    /\ db_file' = IF db_file = MissingFile THEN JsonFile(EmptyDb) ELSE db_file
    /\ UNCHANGED <<now, SECRET_KEY, environ, raceVars, tokVars, backup_file, httpVars, rewriteVars,
                   save_data, old_data, loaded>>

\* The first _load_database of the new process.
LoadAfterRestart ==
    /\ save_pc = "restarted"
    /\ save_pc' = "idle"
    /\ loaded' = [done |-> TRUE, data |-> _load_database(db_file)]
    /\ UNCHANGED <<now, SECRET_KEY, environ, raceVars, tokVars, storeVars, httpVars, rewriteVars,
                   save_data, old_data>>

CrashNext ==
    \/ store_video_call
    \/ update_video_call
    \/ delete_media_call
    \/ SaveRenameToBackup
    \/ SaveOpen
    \/ SaveDump
    \/ SaveRemoveBackup
    \/ SaveFail
    \/ Crash
    \/ Restart
    \/ LoadAfterRestart

SpecCrash == Init /\ [][CrashNext]_vars

\* C10: after the process was stopped inside _save_database, the next
\* _load_database returns the complete old mapping or the complete new one,
\* never an empty, truncated or partial one.
C10_CrashAtomicity ==
    loaded.done => loaded.data \in {old_data, save_data}

\* The process was stopped after the rename: the old mapping sits in the
\* backup and the new process loads the empty mapping.
C10_OldMappingLost ==
    /\ loaded.done
    /\ loaded.data = EmptyDb
    /\ old_data # EmptyDb
    /\ save_data # EmptyDb
    /\ backup_file = JsonFile(old_data)

---------------------------------------------------------------------------
(* Race level: two worker threads, one request each, every handler cut   *)
(* at its calls into the store and the file system.  get_video,          *)
(* store_video and update_video take VideoDatabase.lock; delete_media    *)
(* calls _load_database and _save_database without it.  _save_database   *)
(* is cut at its file operations.                                        *)

RaceMinutes == {1, 2}

\* The record upload n stored, as store_video stamped it.
RaceRecord(n) ==
    [public_id |-> PublicIds[n], internal_id |-> InternalId(n),
     access_key |-> AccessKey(n), admin_key |-> AdminKey(n),
     upload_time |-> 0, expiry_minutes |-> 1, created_at |-> 0, updated_at |-> 0]

\* The store and the files after the first k uploads.
RaceStore(k) ==
    [id \in {PublicIds[n] : n \in 1..k} |->
        RaceRecord(CHOOSE n \in 1..k : PublicIds[n] = id)]

RaceFiles(k) ==
    {abspath(MEDIA_ROOT), abspath(HLS_ROOT)}
    \cup UNION {{abspath(hls_dir_of(InternalId(n)))}
                \cup generate_hls_files(hls_dir_of(InternalId(n)), MaxSegments) :
                n \in 1..k}

\* The access token upload n handed out.
RaceToken(n) == create_access_token_at(PublicIds[n], AccessKey(n), 1, "j1")

RaceInit ==
    /\ now = 0
    /\ SECRET_KEY = EnvSecretKey
    /\ environ = EnvSecretKey
    /\ issued = NoToken
    /\ verdict = NoVerdict
    /\ \E k \in 1..Len(PublicIds) :
          /\ uploads = k
          /\ db_file = JsonFile(RaceStore(k))
          /\ files = RaceFiles(k)
          /\ tokens = {RaceToken(n) : n \in 1..k}
    /\ backup_file = MissingFile
    /\ req = NoRequest
    /\ resp = NoResponse
    /\ SaveIdle
    /\ RewriteIdle
    /\ RaceIdle

\* The thread's locals change; the other thread's stay.
Locals(t, rec) == threads' = [threads EXCEPT ![t] = rec]

\* A worker thread takes up a request.
RaceBegin(t, op, media_id, minutes) ==
    /\ threads[t].pc = "idle"
    /\ Locals(t, [IdleThread EXCEPT !.op = op, !.media_id = media_id,
                                    !.minutes = minutes,
                                    !.pc = IF op = "upload_media" THEN "encode"
                                           ELSE "get_video"])
    /\ UNCHANGED <<now, SECRET_KEY, environ, tokVars, storeVars, httpVars,
                   rewriteVars, saveVars, lock>>

\* media_data = db.get_video(media_id), the 404 and the admin key test.
\* The admin requests of this level carry the right key.
RaceGetVideo(t) ==
    LET me == threads[t]
        got == get_video(me.media_id)
    IN  /\ me.pc = "get_video"
        /\ lock = NoThread
        /\ Locals(t, IF ~got.found
                     THEN [me EXCEPT !.pc = "done", !.status = 404]
                     ELSE [me EXCEPT !.media_data = got.media_data,
                                     !.pc = CASE me.op = "extend_media_expiry" -> "update_video"
                                              [] me.op = "refresh_access_token" -> "exists"
                                              [] me.op = "delete_media" -> "load"
                                              [] OTHER -> "serve"])
        /\ UNCHANGED <<now, SECRET_KEY, environ, tokVars, storeVars, httpVars,
                       rewriteVars, saveVars, lock>>

\* refresh_access_token: os.path.exists(playlist_path)
RaceExists(t) ==
    LET me == threads[t]
    IN  /\ me.pc = "exists"
        /\ Locals(t, IF path_exists(playlist_path_of(me.media_data["internal_id"]))
                     THEN [me EXCEPT !.pc = "update_video"]
                     ELSE [me EXCEPT !.pc = "done", !.status = 404])
        /\ UNCHANGED <<now, SECRET_KEY, environ, tokVars, storeVars, httpVars,
                       rewriteVars, saveVars, lock>>

\* The media_data extend_media_expiry and refresh_access_token hand to
\* db.update_video: the record as get_video returned it, with the new expiry.
RaceUpdated(me) ==
    IF me.op = "extend_media_expiry"
    THEN DictSet(DictSet(me.media_data, "expiry_minutes",
                         Min(DictGet(me.media_data, "expiry_minutes", 60) + me.minutes,
                             MaxExpiryMinutes)),
                 "expiry_extended_at", now)
    ELSE DictSet(DictSet(me.media_data, "expiry_minutes", me.minutes),
                 "last_token_refresh", now)

\* db.update_video up to its call of _save_database: the lock is taken and
\* the store loaded; for an id that is gone it returns False at once.
RaceUpdateVideo(t) ==
    LET me == threads[t]
        db_data == _load_database(db_file)
    IN  /\ me.pc = "update_video"
        /\ lock = NoThread
        /\ IF me.media_id \in DOMAIN db_data
           THEN /\ lock' = t
                /\ Locals(t, [me EXCEPT !.data = update_video_data(me.media_id,
                                                                   RaceUpdated(me)),
                                        !.pc = "rename", !.next = "respond"])
           ELSE /\ lock' = lock
                /\ Locals(t, [me EXCEPT !.pc = "respond"])
        /\ UNCHANGED <<now, SECRET_KEY, environ, tokVars, storeVars, httpVars,
                       rewriteVars, saveVars>>

\* delete_media: contents = db._load_database(); del contents[media_id],
\* without the lock.  An id that is gone by now is a KeyError.
RaceDeleteLoad(t) ==
    LET me == threads[t]
        contents == _load_database(db_file)
    IN  /\ me.pc = "load"
        /\ Locals(t, IF me.media_id \in DOMAIN contents
                     THEN [me EXCEPT !.data = DictDel(contents, me.media_id),
                                     !.pc = "rename", !.next = "rmtree"]
                     ELSE [me EXCEPT !.pc = "done", !.status = 500])
        /\ UNCHANGED <<now, SECRET_KEY, environ, tokVars, storeVars, httpVars,
                       rewriteVars, saveVars, lock>>

\* upload_media up to db.store_video: the identifiers are drawn, the
\* directory made, the media encoded and the uploaded file removed.
RaceEncode(t) ==
    LET me == threads[t]
        n == uploads + 1
        hls_dir == hls_dir_of(InternalId(n))
    IN  /\ me.pc = "encode"
        /\ uploads' = n
        /\ files' = files \cup {abspath(hls_dir)} \cup generate_hls_files(hls_dir, MaxSegments)
        /\ Locals(t, [me EXCEPT !.media_id = PublicIds[n],
                                !.media_data = [public_id |-> PublicIds[n],
                                                internal_id |-> InternalId(n),
                                                access_key |-> AccessKey(n),
                                                admin_key |-> AdminKey(n),
                                                upload_time |-> now,
                                                expiry_minutes |-> me.minutes],
                                !.pc = "store_video"])
        /\ UNCHANGED <<now, SECRET_KEY, environ, tokVars, storeVars, tokens, req, resp,
                       rewriteVars, saveVars, lock>>

\* db.store_video up to its call of _save_database.
RaceStoreVideo(t) ==
    LET me == threads[t]
    IN  /\ me.pc = "store_video"
        /\ lock = NoThread
        /\ lock' = t
        /\ Locals(t, [me EXCEPT !.data = store_video_data(me.media_id, me.media_data),
                                !.pc = "rename", !.next = "respond"])
        /\ UNCHANGED <<now, SECRET_KEY, environ, tokVars, storeVars, httpVars,
                       rewriteVars, saveVars>>

\* _save_database: if os.path.exists(self.db_path): os.rename(...)
RaceSaveRename(t) ==
    LET me == threads[t]
    IN  /\ me.pc = "rename"
        /\ IF db_file # MissingFile
           THEN /\ backup_file' = db_file
                /\ db_file' = MissingFile
           ELSE UNCHANGED storeVars
        /\ Locals(t, [me EXCEPT !.pc = "open"])
        /\ UNCHANGED <<now, SECRET_KEY, environ, tokVars, httpVars,
                       rewriteVars, saveVars, lock>>

\* _save_database: open(self.db_path, 'w')
RaceSaveOpen(t) ==
    LET me == threads[t]
    IN  /\ me.pc = "open"
        /\ db_file' = PartialFile
        /\ Locals(t, [me EXCEPT !.pc = "dump"])
        /\ UNCHANGED <<now, SECRET_KEY, environ, tokVars, backup_file, httpVars,
                       rewriteVars, saveVars, lock>>

\* _save_database: json.dump(data, f, ...) and the end of the with block
RaceSaveDump(t) ==
    LET me == threads[t]
    IN  /\ me.pc = "dump"
        /\ db_file' = JsonFile(me.data)
        /\ Locals(t, [me EXCEPT !.pc = "remove"])
        /\ UNCHANGED <<now, SECRET_KEY, environ, tokVars, backup_file, httpVars,
                       rewriteVars, saveVars, lock>>

\* _save_database: the backup is removed; store_video and update_video
\* then leave their with self.lock block.
RaceSaveRemove(t) ==
    LET me == threads[t]
    IN  /\ me.pc = "remove"
        /\ backup_file' = MissingFile
        /\ lock' = IF lock = t THEN NoThread ELSE lock
        /\ Locals(t, [me EXCEPT !.pc = me.next])
        /\ UNCHANGED <<now, SECRET_KEY, environ, tokVars, db_file, httpVars,
                       rewriteVars, saveVars>>

\* delete_media: if os.path.exists(hls_dir): shutil.rmtree(hls_dir), and
\* the answer.
RaceRmtree(t) ==
    LET me == threads[t]
        hls_dir == hls_dir_of(me.media_data["internal_id"])
    IN  /\ me.pc = "rmtree"
        /\ files' = IF path_exists(hls_dir) THEN rmtree(files, hls_dir) ELSE files
        /\ Locals(t, [me EXCEPT !.pc = "done", !.status = 200])
        /\ UNCHANGED <<now, SECRET_KEY, environ, tokVars, storeVars, uploads, tokens,
                       req, resp, rewriteVars, saveVars, lock>>

\* get_playlist after the record was found: the token is verified and the
\* playlist looked for and read.  The request carries the token the upload
\* of that resource handed out.
RaceServe(t) ==
    LET me == threads[t]
        n == CHOOSE k \in 1..Len(PublicIds) : PublicIds[k] = me.media_id
    IN  /\ me.pc = "serve"
        /\ Locals(t, [me EXCEPT
                !.pc = "done",
                !.status =
                    IF ~verify_access_token(RaceToken(n), me.media_id,
                                            me.media_data["access_key"])
                    THEN 403
                    ELSE IF ~path_exists(playlist_path_of(me.media_data["internal_id"]))
                    THEN 404
                    ELSE 200])
        /\ UNCHANGED <<now, SECRET_KEY, environ, tokVars, storeVars, httpVars,
                       rewriteVars, saveVars, lock>>

\* upload_media, refresh_access_token and extend_media_expiry return; the
\* first two hand out the access token they created.
RaceRespond(t) ==
    LET me == threads[t]
    IN  /\ me.pc = "respond"
        /\ tokens' = IF me.op = "extend_media_expiry" THEN tokens
                     ELSE tokens \cup {create_access_token_at(
                                           me.media_id, me.media_data["access_key"],
                                           me.minutes, "j1")}
        /\ Locals(t, [me EXCEPT !.pc = "done", !.status = 200])
        /\ UNCHANGED <<now, SECRET_KEY, environ, tokVars, storeVars, files, uploads,
                       req, resp, rewriteVars, saveVars, lock>>

RaceRequest ==
    \E t \in Threads :
        \/ \E n \in 1..Len(PublicIds), minutes \in RaceMinutes :
              RaceBegin(t, "extend_media_expiry", PublicIds[n], minutes)
        \/ \E n \in 1..Len(PublicIds) :
              \/ RaceBegin(t, "refresh_access_token", PublicIds[n], 2)
              \/ RaceBegin(t, "delete_media", PublicIds[n], 0)
              \/ RaceBegin(t, "get_playlist", PublicIds[n], 0)
        \/ /\ uploads < Len(PublicIds)
           /\ \A u \in Threads : threads[u].op # "upload_media"
           /\ RaceBegin(t, "upload_media", "", 1)

RaceNext ==
    \/ RaceRequest
    \/ \E t \in Threads : RaceGetVideo(t)
    \/ \E t \in Threads : RaceExists(t)
    \/ \E t \in Threads : RaceUpdateVideo(t)
    \/ \E t \in Threads : RaceDeleteLoad(t)
    \/ \E t \in Threads : RaceEncode(t)
    \/ \E t \in Threads : RaceStoreVideo(t)
    \/ \E t \in Threads : RaceSaveRename(t)
    \/ \E t \in Threads : RaceSaveOpen(t)
    \/ \E t \in Threads : RaceSaveDump(t)
    \/ \E t \in Threads : RaceSaveRemove(t)
    \/ \E t \in Threads : RaceRmtree(t)
    \/ \E t \in Threads : RaceServe(t)
    \/ \E t \in Threads : RaceRespond(t)

SpecRace == RaceInit /\ [][RaceNext]_vars

\* No request is being handled.
Quiet == \A t \in Threads : threads[t].pc \in {"idle", "done"}

\* The store the two requests started from.
StartStore ==
    RaceStore(uploads - Cardinality({t \in Threads : threads[t].op = "upload_media"}))

\* The store a request leaves when it runs alone from first line to last.
AppliedAlone(store, r) ==
    LET known == r.media_id \in DOMAIN store
        e == IF known THEN store[r.media_id]["expiry_minutes"] ELSE 0
    IN  CASE r.op = "extend_media_expiry" /\ known ->
                DictSet(store, r.media_id,
                        DictSet(DictSet(DictSet(store[r.media_id], "expiry_minutes",
                                                Min(e + r.minutes, MaxExpiryMinutes)),
                                        "expiry_extended_at", now),
                                "updated_at", now))
          [] r.op = "refresh_access_token" /\ known ->
                DictSet(store, r.media_id,
                        DictSet(DictSet(DictSet(store[r.media_id], "expiry_minutes",
                                                r.minutes),
                                        "last_token_refresh", now),
                                "updated_at", now))
          [] r.op = "delete_media" /\ known -> DictDel(store, r.media_id)
          [] r.op = "upload_media" ->
                DictSet(store, r.media_id,
                        DictSet(DictSet(r.media_data, "created_at", now),
                                "updated_at", now))
          [] OTHER -> store

\* C11: once the concurrent requests are answered the store is what they
\* leave when run one after the other, in one order or the other.
C11_Serialised ==
    Quiet =>
        /\ db_file.state = "ok"
        /\ db_file.data \in
              {AppliedAlone(AppliedAlone(StartStore, threads["t1"]), threads["t2"]),
               AppliedAlone(AppliedAlone(StartStore, threads["t2"]), threads["t1"])}

\* Two extend-expiry requests of 1 and 2 minutes on m1 (expiry 1) were both
\* answered 200 and the record's expiry is not 4.
C11_LostExtension ==
    /\ \A t \in Threads :
          /\ threads[t].op = "extend_media_expiry"
          /\ threads[t].media_id = "m1"
          /\ threads[t].pc = "done"
          /\ threads[t].status = 200
    /\ threads["t1"].minutes = 1
    /\ threads["t2"].minutes = 2
    /\ db_file.state = "ok"
    /\ db_file.data["m1"]["expiry_minutes"] < 4

\* A delete of m1 and an extend-expiry of m2 were both answered 200 and the
\* extension of m2 is not in the store.
C11_LostBesideDelete ==
    /\ threads["t1"].op = "delete_media" /\ threads["t1"].media_id = "m1"
    /\ threads["t2"].op = "extend_media_expiry" /\ threads["t2"].media_id = "m2"
    /\ \A t \in Threads : threads[t].pc = "done" /\ threads[t].status = 200
    /\ db_file.state = "ok"
    /\ "m2" \in DOMAIN db_file.data
    /\ db_file.data["m2"]["expiry_minutes"] = 1

\* The requests that change the store or the directories.
Mutations == {"upload_media", "refresh_access_token", "extend_media_expiry",
              "delete_media"}

\* C17: a playlist request for a resource that is in the store, carrying
\* its valid token, is answered 200 when the only other request running is
\* a mutation of a different resource.
C17_ReadIsolated ==
    \A t \in Threads : \A u \in Threads \ {t} :
        (/\ threads[t].op = "get_playlist"
         /\ threads[t].pc = "done"
         /\ threads[t].media_id \in DOMAIN StartStore
         /\ threads[u].op \in Mutations
         /\ threads[u].media_id # threads[t].media_id)
            => threads[t].status = 200

\* A playlist request for m2 is answered 404 while a delete of m1 is inside
\* _save_database, and m2's record and playlist are there all along.
C17_ReadFailsBesideDelete ==
    /\ threads["t1"].op = "get_playlist" /\ threads["t1"].media_id = "m2"
    /\ threads["t1"].pc = "done" /\ threads["t1"].status = 404
    /\ threads["t2"].op = "delete_media" /\ threads["t2"].media_id = "m1"
    /\ threads["t2"].pc \in {"open", "dump"}
    /\ "m2" \in DOMAIN threads["t2"].data
    /\ path_exists(playlist_path_of(InternalId(2)))

---------------------------------------------------------------------------
(* Claims on the handlers' effects, checked under Spec *)

\* The public ids handed out so far (uuid4 never repeats one).
IssuedIds == {PublicIds[n] : n \in 1..uploads}

\* Nothing is left at or below the directory.
DirGone(fs, dir) == rmtree(fs, dir) = fs

ExpiryInRange ==
    \A media_id \in DOMAIN _load_database(db_file) :
        RecordOf(media_id).expiry_minutes \in 1..MaxExpiryMinutes

\* C13: every record's expiry_minutes is an integer in [1, 10080]; an
\* extend-expiry of n minutes on a record with expiry e stores
\* min(e + n, 10080) and reports previous_expiry_minutes = e,
\* new_expiry_minutes = min(e + n, 10080) and extended_by_minutes = new -
\* previous, which is 0 when e is already 10080.
C13_ExpiryBound ==
    /\ []ExpiryInRange
    /\ [][\A media_id \in RequestIds :
            (/\ req = NoRequest
             /\ req'.op = "extend_media_expiry"
             /\ req'.media_id = media_id
             /\ resp'.status = 200) =>
                LET e == RecordOf(media_id).expiry_minutes
                    capped == Min(e + req'.additional_minutes, MaxExpiryMinutes)
                IN  /\ RecordOf(media_id)'.expiry_minutes = capped
                    /\ resp'.body.previous_expiry_minutes = e
                    /\ resp'.body.new_expiry_minutes = capped
                    /\ resp'.body.extended_by_minutes = capped - e
                    /\ e = MaxExpiryMinutes => resp'.body.extended_by_minutes = 0]_vars

\* An extension of 10080 minutes of a record with expiry 1 is answered with
\* new_expiry_minutes 10080 and extended_by_minutes 10079.
C13_Witness ==
    /\ req.op = "extend_media_expiry"
    /\ req.additional_minutes = MaxExpiryMinutes
    /\ resp.status = 200
    /\ resp.body.previous_expiry_minutes = 1
    /\ resp.body.extended_by_minutes = MaxExpiryMinutes - 1
    /\ RecordOf(req.media_id).expiry_minutes = MaxExpiryMinutes

---------------------------------------------------------------------------
(* Refresh level: refresh-token requests against the stores the service  *)
(* can be left with after two uploads: both records with their           *)
(* directories, one record with its directory (the other deleted), and   *)
(* one record without its directory (two deletes that ran at the same    *)
(* time, each saving the mapping it had loaded).                         *)

AllIds == {PublicIds[n] : n \in 1..Len(PublicIds)}

RefreshInit ==
    /\ now = 0
    /\ SECRET_KEY = EnvSecretKey
    /\ environ = EnvSecretKey
    /\ issued = NoToken
    /\ verdict = NoVerdict
    /\ backup_file = MissingFile
    /\ uploads = Len(PublicIds)
    /\ tokens = {RaceToken(n) : n \in 1..Len(PublicIds)}
    /\ req = NoRequest
    /\ resp = NoResponse
    /\ SaveIdle
    /\ RaceIdle
    /\ RewriteIdle
    /\ \E kept \in SUBSET AllIds \ {{}}, dirs \in BOOLEAN :
          /\ ~dirs => Cardinality(kept) = 1
          /\ db_file = JsonFile([id \in kept |-> RaceStore(Len(PublicIds))[id]])
          /\ files = {abspath(MEDIA_ROOT), abspath(HLS_ROOT)}
                     \cup IF dirs
                          THEN {f \in RaceFiles(Len(PublicIds)) :
                                  \E id \in kept :
                                      StartsWith(f, abspath(hls_dir_of(
                                          RaceStore(Len(PublicIds))[id].internal_id)))}
                          ELSE {}

RefreshRequest ==
    /\ req = NoRequest
    /\ \E media_id \in RequestIds, admin_key \in AdminKeyInputs,
       expiry_minutes \in ExpiryInputs, token_id \in HttpJtis :
          Handle([op |-> "refresh_access_token", media_id |-> media_id,
                  admin_key |-> admin_key, expiry_minutes |-> expiry_minutes],
                 refresh_access_token_outcome(media_id, admin_key, expiry_minutes,
                                              token_id))
    /\ UNCHANGED uploads

RefreshNext ==
    \/ RefreshRequest
    \/ Respond

SpecRefresh == RefreshInit /\ [][RefreshNext]_vars

\* C14: a refresh-token request for an unknown id ends in 404; for a record
\* and another admin key in 403; for a record, its admin key and no
\* playlist file in 404; each of these issues no token and changes nothing.
\* With the record, its admin key and the playlist file it returns a token
\* that verifies for that media_id and runs for the expiry_minutes asked
\* for, and the record then holds that expiry_minutes and last_token_refresh.
C14_Refresh ==
    [][\A media_id \in RequestIds :
        (/\ req = NoRequest
         /\ req'.op = "refresh_access_token"
         /\ req'.media_id = media_id) =>
            LET got == get_video(media_id)
                match == got.media_data.admin_key = req'.admin_key
                manifest == path_exists(playlist_path_of(got.media_data.internal_id))
                token == resp'.body.access_token
            IN  /\ ~got.found =>
                      /\ resp' = HTTPException(404, "Media not found!")
                      /\ Kept' = Kept
                /\ (got.found /\ ~match) =>
                      /\ resp' = HTTPException(403, "Invalid admin key!")
                      /\ Kept' = Kept
                /\ (got.found /\ match /\ ~manifest) =>
                      /\ resp' = HTTPException(404, "Media files not found!")
                      /\ Kept' = Kept
                /\ (got.found /\ match /\ manifest) =>
                      /\ resp'.status = 200
                      /\ verify_access_token(token, media_id, got.media_data.access_key)
                      /\ token.payload.exp =
                            NumericDate(now + req'.expiry_minutes * MinuteTicks)
                      /\ tokens' = tokens \cup {token}
                      /\ RecordOf(media_id)'.expiry_minutes = req'.expiry_minutes
                      /\ RecordOf(media_id)'.last_token_refresh = now
                      /\ files' = files]_vars

\* A refresh with the record's own admin key is answered 404 because the
\* playlist file is gone, and no further token was handed out.
C14_Witness ==
    /\ req.op = "refresh_access_token"
    /\ Known(req.media_id)
    /\ RecordOf(req.media_id).admin_key = req.admin_key
    /\ resp = HTTPException(404, "Media files not found!")
    /\ Cardinality(tokens) = Len(PublicIds)

\* The file the upload is written to: media/hls/<internal_id>.mp4
media_path_of(n) == path_join(HLS_ROOT, InternalId(n) \o Mp4Suffix)

\* C15: when generate_hls fails during an upload, nothing is left at or
\* below the output directory when the 500 is given, no record is stored
\* and no token is issued; and whether the encoder succeeds or fails, the
\* uploaded file is gone when the upload is answered.
C15_EncoderFailureCleanup ==
    [][(req = NoRequest /\ req'.op = "upload_media") =>
          /\ resp'.status \in {200, 500}
          /\ resp'.status = 500 =>
                /\ DirGone(files', hls_dir_of(InternalId(uploads')))
                /\ files' = files
                /\ db_file' = db_file
                /\ tokens' = tokens
          /\ abspath(media_path_of(uploads')) \notin files']_vars

\* A second upload fails in the encoder after a first one succeeded: the
\* first resource's directory is there, the second's is not.
C15_Witness ==
    /\ req.op = "upload_media"
    /\ resp.status = 500
    /\ uploads = 2
    /\ path_exists(playlist_path_of(InternalId(1)))
    /\ DirGone(files, hls_dir_of(InternalId(2)))
    /\ ~path_exists(media_path_of(2))

---------------------------------------------------------------------------
(* Claims on _save_database, checked under SpecCrash *)

\* C16: when open() or json.dump() in _save_database raises, the mapping
\* read from the database file afterwards equals the mapping that was in it
\* before the call, no backup file is left over, and the call ends by
\* raising to its caller.
C16_WriteFailureRollback ==
    [][(save_pc \in {"open", "dump"} /\ save_pc' \notin {"dump", "remove", "down"}) =>
          /\ save_pc' = "raised"
          /\ _load_database(db_file') = old_data
          /\ backup_file' = MissingFile]_vars

\* An update of a record has failed in the middle of the write: the call
\* has raised and the file holds the earlier, non-empty mapping, which
\* differs from the one that was being written.
C16_Witness ==
    /\ save_pc = "raised"
    /\ old_data # EmptyDb
    /\ DOMAIN save_data = DOMAIN old_data
    /\ save_data # old_data
    /\ db_file = JsonFile(old_data)
    /\ backup_file = MissingFile

---------------------------------------------------------------------------
(* Failure level: uploads and deletes, handled one after another, in     *)
(* which a step the handler does not guard can raise: the write in       *)
(* _save_database (which rolls the file back and re-raises) and          *)
(* shutil.rmtree in delete_media.  An exception that leaves the handler  *)
(* is answered 500 by the framework.                                     *)

Faults == {"none", "save", "rmtree"}

InternalServerError == HTTPException(500, "Internal Server Error")

\* upload_media in which db.store_video raises: the encoder has run, the
\* uploaded file is removed, the store is as before.
upload_media_faulty(expiry_minutes, nseg, token_id, fault) ==
    LET outcome == upload_media_outcome(expiry_minutes, nseg, token_id)
    IN  IF fault = "save" /\ outcome.resp.status = 200
        THEN [resp |-> InternalServerError,
              db_file |-> db_file,
              files |-> outcome.files,
              tokens |-> tokens]
        ELSE outcome

\* delete_media in which db._save_database raises (nothing has changed) or
\* shutil.rmtree raises (the record is gone; the directory is still there,
\* with or without the files rmtree got to before it failed).
delete_media_faulty(media_id, admin_key, fault, emptied) ==
    LET outcome == delete_media_outcome(media_id, admin_key)
        hls_dir == hls_dir_of(get_video(media_id).media_data["internal_id"])
    IN  IF fault = "none" \/ outcome.resp.status # 200
        THEN outcome
        ELSE IF fault = "save"
        THEN Answer(InternalServerError)
        ELSE [resp |-> InternalServerError,
              db_file |-> outcome.db_file,
              files |-> IF emptied
                        THEN outcome.files \cup {abspath(hls_dir)}
                        ELSE files,
              tokens |-> tokens]

FailUpload ==
    /\ req = NoRequest
    /\ uploads < Len(PublicIds)
    /\ \E expiry_minutes \in ExpiryInputs, nseg \in {0, MaxSegments},
          token_id \in HttpJtis, fault \in Faults \ {"rmtree"} :
          Handle([op |-> "upload_media", expiry_minutes |-> expiry_minutes],
                 upload_media_faulty(expiry_minutes, nseg, token_id, fault))
    /\ uploads' = uploads + 1

FailDelete ==
    /\ req = NoRequest
    /\ \E media_id \in RequestIds, admin_key \in AdminKeyInputs,
          fault \in Faults, emptied \in BOOLEAN :
          Handle([op |-> "delete_media", media_id |-> media_id,
                  admin_key |-> admin_key],
                 delete_media_faulty(media_id, admin_key, fault, emptied))
    /\ UNCHANGED uploads

FailNext ==
    \/ FailUpload
    \/ FailDelete
    \/ Playlist
    \/ Respond

SpecFail == Init /\ [][FailNext]_vars

\* C18: whenever no request is being handled, a resource has a record in
\* the store if and only if its storage directory exists, also after an
\* upload or a delete that failed part-way.
C18_NoPartialState ==
    req = NoRequest =>
        \A n \in 1..Len(PublicIds) :
            Known(PublicIds[n]) <=> path_exists(hls_dir_of(InternalId(n)))

\* No request is being handled; a complete output directory with its
\* playlist is there and the store has no record for it.
C18_DirectoryWithoutRecord ==
    /\ req = NoRequest
    /\ \E n \in 1..Len(PublicIds) :
          /\ ~Known(PublicIds[n])
          /\ path_exists(playlist_path_of(InternalId(n)))

---------------------------------------------------------------------------
(* Restart level: the service is stopped and started again between       *)
(* requests.  env.py runs anew in the new process: SECRET_KEY is the     *)
(* environment variable when it is set, and a freshly drawn              *)
(* secrets.token_urlsafe(64) when it is not.  The database file and the  *)
(* media directory stay on disk.                                         *)

MaxRestarts == 1

\* The value the i-th call of secrets.token_urlsafe(64) returns: no two
\* processes draw the same one.
RandomKey(i) == <<"r", Digits[i + 1]>>

\* How many keys have been drawn up to the running process.
Drawn ==
    IF \E i \in 1..(MaxRestarts + 1) : SECRET_KEY = RandomKey(i)
    THEN CHOOSE i \in 1..(MaxRestarts + 1) : SECRET_KEY = RandomKey(i)
    ELSE 0

generate_secret_key == RandomKey(Drawn + 1)

\* get_env_var("SECRET_KEY") or generate_secret_key()
LoadSecretKey == IF environ # NoEnvVar THEN environ ELSE generate_secret_key

RestartInit ==
    /\ now = 0
    /\ environ \in {EnvSecretKey, NoEnvVar}
    /\ SECRET_KEY = IF environ # NoEnvVar THEN environ ELSE RandomKey(1)
    /\ issued = NoToken
    /\ verdict = NoVerdict
    /\ StoreInit
    /\ HttpInit
    /\ SaveIdle
    /\ RaceIdle
    /\ RewriteIdle

ProcessRestart ==
    /\ req = NoRequest
    /\ environ = NoEnvVar => Drawn <= MaxRestarts
    /\ SECRET_KEY' = LoadSecretKey
    /\ UNCHANGED <<now, environ, raceVars, tokVars, storeVars, httpVars, rewriteVars,
                   saveVars>>

RestartNext ==
    \/ Upload
    \/ Playlist
    \/ Respond
    \/ Advance
    \/ ProcessRestart

SpecRestart == RestartInit /\ [][RestartNext]_vars

\* The token was handed out for a resource that still has its record, and
\* its exp lies ahead.
Unexpired(token) ==
    /\ Known(token.payload.media_id)
    /\ now < token.payload.exp * TicksPerSecond

\* C19: the master secret never changes, a restart included, and every
\* access token handed out whose exp lies ahead and whose record is in the
\* store is accepted by verify_access_token for its resource.
C19_RestartStability ==
    /\ [][SECRET_KEY' = SECRET_KEY]_vars
    /\ [](\A token \in tokens :
            Unexpired(token) =>
                verify_access_token(token, token.payload.media_id,
                                    RecordOf(token.payload.media_id).access_key))

\* After a restart a playlist request carrying the token the upload handed
\* out, not yet expired, is answered 403.
C19_TokenRefusedAfterRestart ==
    /\ req.op = "get_playlist"
    /\ req.token \in tokens
    /\ req.token.payload.media_id = req.media_id
    /\ Unexpired(req.token)
    /\ SECRET_KEY # RandomKey(1)
    /\ resp.status = 403

---------------------------------------------------------------------------
(* Claims on what the responses carry, checked under Spec *)

\* The text is the value of a field of the token's payload.  (Of the
\* payload's fields only access_key_hash holds such a text; media_id, jti
\* and token_type are names, iat and exp numbers.)
InPayload(text, token) == token.payload.access_key_hash = text

\* The text is part of what the response carries: a field of a JSON body,
\* the token or the playlist URL in it, the URLs of a rewritten playlist
\* ('/stream/{media_id}/{segment}?token={token}'), or the detail of an
\* error.  A playlist's other lines and a segment are the encoder's output
\* files as they are.
Appears(text, response) ==
    LET body == response.body
    IN  \/ "kind" \in DOMAIN body /\ body.kind = "stderr" /\ Contains(body.text, text)
        \/ "kind" \in DOMAIN body /\ body.kind = "playlist" /\ InPayload(text, body.token)
        \/ "admin_key" \in DOMAIN body /\ body.admin_key = text
        \/ "access_key" \in DOMAIN body /\ body.access_key = text
        \/ "internal_id" \in DOMAIN body /\ body.internal_id = text
        \/ "access_token" \in DOMAIN body /\ InPayload(text, body.access_token)
        \/ "playlist_url" \in DOMAIN body /\ InPayload(text, body.playlist_url.token)

\* Upload n was answered 200: its token is among those handed out.
Stored(n) == \E token \in tokens : token.payload.media_id = PublicIds[n]

---------------------------------------------------------------------------
(* Cleanup level: database.py's cleanup_expired_videos is called on      *)
(* stores whose records carry an upload_time as upload_media wrote it,   *)
(* a text that is no ISO date, or no upload_time at all (the two cases   *)
(* the function's except clause is written for).                         *)

\* An upload_time that datetime.fromisoformat rejects with ValueError.
BadDate == -2

CleanupExpiries == {1, MaxExpiryMinutes}

\* The records a store can hold for upload n.
CleanupRecords(n) ==
    {[public_id |-> PublicIds[n], internal_id |-> InternalId(n),
      access_key |-> AccessKey(n), admin_key |-> AdminKey(n),
      upload_time |-> upload_time, expiry_minutes |-> expiry_minutes] :
        upload_time \in {0, BadDate}, expiry_minutes \in CleanupExpiries}
    \cup {[public_id |-> PublicIds[n], internal_id |-> InternalId(n),
           access_key |-> AccessKey(n), admin_key |-> AdminKey(n),
           expiry_minutes |-> expiry_minutes] : expiry_minutes \in CleanupExpiries}

CleanupStores ==
    UNION {[ids -> UNION {CleanupRecords(n) : n \in 1..Len(PublicIds)}] :
              ids \in SUBSET {PublicIds[n] : n \in 1..Len(PublicIds)}}

NoCall == [fn |-> "none"]

\* The try block of the loop, for one record: "skip" for the KeyError of a
\* missing upload_time and the ValueError of fromisoformat, which the
\* except clause turns into continue; otherwise the comparison is reached
\* and evaluates timedelta(minutes=expiry_minutes).  database.py imports
\* only datetime from the datetime module, so that is a NameError, which
\* the except clause does not name.
cleanup_try(video_data) ==
    IF "upload_time" \notin DOMAIN video_data THEN "skip"
    ELSE IF video_data["upload_time"] = BadDate THEN "skip"
    ELSE "NameError"

\* cleanup_expired_videos(): how the call ends and the store file it
\* leaves.  An exception leaves the loop and the function before anything
\* is removed or saved.
cleanup_expired_videos_outcome ==
    LET db_data == _load_database(db_file)
        raised == \E public_id \in DOMAIN db_data :
                      cleanup_try(db_data[public_id]) = "NameError"
        videos_to_remove == {public_id \in DOMAIN db_data :
                                cleanup_try(db_data[public_id]) = "expired"}
        expired_count == Cardinality(videos_to_remove)
        remaining == [public_id \in DOMAIN db_data \ videos_to_remove |->
                         db_data[public_id]]
    IN  IF raised
        THEN [call |-> [fn |-> "cleanup_expired_videos", raised |-> TRUE,
                        returned |-> 0, saved |-> FALSE, at |-> now],
              db_file |-> db_file]
        ELSE [call |-> [fn |-> "cleanup_expired_videos", raised |-> FALSE,
                        returned |-> expired_count, saved |-> expired_count > 0,
                        at |-> now],
              db_file |-> IF expired_count > 0 THEN SavedFile(remaining) ELSE db_file]

CleanupInit ==
    /\ now = 0
    /\ SECRET_KEY = EnvSecretKey
    /\ environ = EnvSecretKey
    /\ issued = NoToken
    /\ verdict = NoCall
    /\ backup_file = MissingFile
    /\ HttpInit
    /\ SaveIdle
    /\ RaceIdle
    /\ RewriteIdle
    /\ \E store \in CleanupStores :
          /\ \A id \in DOMAIN store : store[id].public_id = id
          /\ db_file = JsonFile(store)

cleanup_expired_videos ==
    /\ verdict = NoCall
    /\ verdict' = cleanup_expired_videos_outcome.call
    /\ db_file' = cleanup_expired_videos_outcome.db_file
    /\ old_data' = _load_database(db_file)
    /\ UNCHANGED <<now, SECRET_KEY, environ, raceVars, issued, backup_file, httpVars,
                   rewriteVars, save_pc, save_data, loaded>>

\* The caller has seen the result.
CleanupReturn ==
    /\ verdict # NoCall
    /\ verdict' = NoCall
    /\ UNCHANGED <<now, SECRET_KEY, environ, raceVars, issued, storeVars, httpVars,
                   rewriteVars, saveVars>>

CleanupNext ==
    \/ cleanup_expired_videos
    \/ CleanupReturn
    \/ Advance

SpecCleanup == CleanupInit /\ [][CleanupNext]_vars

\* The record has an upload_time that is a date, and upload_time +
\* expiry_minutes lies before the time t.
ExpiredAt(video_data, t) ==
    /\ "upload_time" \in DOMAIN video_data
    /\ video_data["upload_time"] # BadDate
    /\ video_data["upload_time"] + video_data["expiry_minutes"] * MinuteTicks < t

\* C21: a call of cleanup_expired_videos returns; the store then holds
\* exactly the records that were in it and are not expired, each unchanged;
\* the number returned is the number of records removed; and the store was
\* written only if that number is not 0.
C21_Cleanup ==
    verdict.fn = "cleanup_expired_videos" =>
        LET gone == {id \in DOMAIN old_data : ExpiredAt(old_data[id], verdict.at)}
        IN  /\ ~verdict.raised
            /\ _load_database(db_file) = [id \in DOMAIN old_data \ gone |-> old_data[id]]
            /\ verdict.returned = Cardinality(gone)
            /\ verdict.saved => Cardinality(gone) > 0

\* The call has ended in an exception and the record that expired is still
\* in the store.
C21_ExpiredRecordKept ==
    /\ verdict.fn = "cleanup_expired_videos"
    /\ verdict.raised
    /\ \E id \in DOMAIN _load_database(db_file) : ExpiredAt(RecordOf(id), verdict.at)

---------------------------------------------------------------------------
(* Claims on tokens handed out earlier, checked under Spec *)

\* verify_access_token accepts the token for its resource, with the access
\* key the record holds now.
Accepted(token) ==
    verify_access_token(token, token.payload.media_id,
                        RecordOf(token.payload.media_id).access_key)

\* C22: a refresh-token or extend-expiry request leaves every record's
\* access_key as it was and changes the verdict of verify_access_token for
\* no token handed out before; at every time a token handed out for a
\* resource that still has its record is accepted exactly if its own exp
\* lies ahead, whatever expiry_minutes the record holds.
C22_EarlierTokensUntouched ==
    /\ [](\A token \in tokens :
            Known(token.payload.media_id) =>
                (Accepted(token) <=> now < token.payload.exp * TicksPerSecond))
    /\ [][(/\ req = NoRequest
           /\ req'.op \in {"refresh_access_token", "extend_media_expiry"}) =>
             /\ \A media_id \in DOMAIN _load_database(db_file) :
                   /\ Known(media_id)'
                   /\ RecordOf(media_id)'.access_key = RecordOf(media_id).access_key
             /\ \A token \in tokens :
                   Known(token.payload.media_id) => (Accepted(token)' <=> Accepted(token))]_vars

\* The record's expiry_minutes was set to 1 by a refresh and more than a
\* minute has passed since the upload; the token the upload handed out for
\* 10080 minutes is still served.
C22_Witness ==
    /\ req.op = "get_playlist"
    /\ resp.status = 200
    /\ req.token \in tokens
    /\ Known(req.media_id)
    /\ "last_token_refresh" \in DOMAIN RecordOf(req.media_id)
    /\ RecordOf(req.media_id).expiry_minutes = 1
    /\ now > RecordOf(req.media_id).upload_time + MinuteTicks
    /\ req.token.payload.iat = NumericDate(RecordOf(req.media_id).upload_time)
    /\ req.token.payload.exp =
          NumericDate(RecordOf(req.media_id).upload_time + MaxExpiryMinutes * MinuteTicks)

---------------------------------------------------------------------------
(* Claims on deletes beside updates of the same record, checked under    *)
(* SpecRace                                                              *)

\* C23: once delete_media has answered 200 for a media_id while a
\* refresh-token or extend-expiry request for the same id is or was being
\* handled, the store holds no record for that id.
C23_NoResurrection ==
    \A t \in Threads : \A u \in Threads \ {t} :
        (/\ threads[t].op = "delete_media"
         /\ threads[t].pc = "done"
         /\ threads[t].status = 200
         /\ threads[u].op \in {"refresh_access_token", "extend_media_expiry"}
         /\ threads[u].media_id = threads[t].media_id)
            => ~Known(threads[t].media_id)

\* The delete of m1 and an extend-expiry of m1 have both been answered 200,
\* no request is being handled, m1's directory is gone and its record is in
\* the store, with the extended expiry.
C23_RecordBack ==
    /\ Quiet
    /\ threads["t1"].op = "delete_media" /\ threads["t1"].media_id = "m1"
    /\ threads["t1"].status = 200
    /\ threads["t2"].op = "extend_media_expiry" /\ threads["t2"].media_id = "m1"
    /\ threads["t2"].status = 200
    /\ Known("m1")
    /\ RecordOf("m1").expiry_minutes > 1
    /\ ~path_exists(hls_dir_of(InternalId(1)))

=============================================================================
